---------------------------- MODULE Spec2Model ----------------------------
(***************************************************************************)
(* A model of schema-forge: the schema diff engine (core/diff.ts), the     *)
(* generate command (commands/generate.ts), the SQL statement splitter     *)
(* (core/sql/split-statements.ts) and the migration parser                 *)
(* (core/sql/parse-migration.ts).                                          *)
(*                                                                         *)
(* Text is modelled as a sequence of one-character strings.  A JavaScript  *)
(* object used as a map (Record<string, T>) is modelled as the sequence of *)
(* its entries [key, value] in key (insertion) order, which is the order   *)
(* Object.keys and Object.entries return.                                  *)
(***************************************************************************)
EXTENDS Integers, Sequences, FiniteSets, TLC

VARIABLES
    oldState,       \* diff: the persisted snapshot (StateFile) handed to diffSchemas / on disk
    newSchema,      \* diff: the declared schema (DatabaseSchema)
    operations,     \* diff: the operations of the last diffSchemas call
    outcome,        \* diff: "start" | "diffed" | "invalid" | "nochange" | "generated"
    runs,           \* generate: number of runGenerate runs so far
    migrations,     \* generate: number of migration files written
    sql,            \* splitter: the text handed to splitSqlStatements
    index,          \* splitter: the cursor (1-based; index - 1 is the source's index)
    current,        \* splitter: the text of the statement being read
    statements,     \* splitter: the statements emitted so far
    inSingleQuote,  \* splitter: inside '...'
    inDoubleQuote,  \* splitter: inside "..."
    inLineComment,  \* splitter: inside -- ...
    inBlockComment, \* splitter: inside /* ... */
    dollarTag,      \* splitter: the open dollar-quote tag, NoTag when none
    phase,          \* "idle" | "scan" | "done" (split returned) | "parsed" (parse returned)
    position,       \* parser: the statement parseMigrationSql's loop is at (1-based)
    ops,            \* parser: ParseResult.ops
    warnings,       \* parser: ParseResult.warnings
    applied,        \* replay: the number of ops applySqlOps's loop has gone through
    replayTables,   \* replay: the table map applySqlOps builds (its local tables)
    replayWarnings, \* replay: ApplySqlOpsResult.warnings
    dsl,            \* import: the text schemaToDsl returned
    reparsed,       \* import: the schema the DSL parser read from dsl, <<>> before
    generated,      \* generator: the text generateSql returned
    findings,       \* validate: the findings of validateSchemaChanges
    report,         \* validate: the report toValidationReport made of them
    exitCode        \* validate: process.exitCode

diffVars == <<oldState, newSchema, operations, outcome, runs, migrations>>

splitVars ==
    <<sql, index, current, statements, inSingleQuote, inDoubleQuote, inLineComment,
      inBlockComment, dollarTag>>

parseVars == <<position, ops, warnings>>

replayVars == <<applied, replayTables, replayWarnings, dsl, reparsed>>

genVars == <<generated>>

validateVars == <<findings, report, exitCode>>

vars == <<diffVars, splitVars, parseVars, replayVars, genVars, validateVars, phase>>

-----------------------------------------------------------------------------
(* Bounds of the model *)

\* columns per table in the single-table input family
MaxCols == 2
\* tables per schema in the multi-table input families
MaxTables == 2
\* runGenerate runs per behaviour
MaxRuns == 2

-----------------------------------------------------------------------------
(* Generic helpers *)

\* dollarTag === null
NoTag == <<>>

\* the locals of splitSqlStatements as they are initialised (lines 11-20)
SplitStart ==
    /\ index = 1
    /\ current = <<>>
    /\ statements = <<>>
    /\ inSingleQuote = FALSE
    /\ inDoubleQuote = FALSE
    /\ inLineComment = FALSE
    /\ inBlockComment = FALSE
    /\ dollarTag = NoTag

\* the locals of parseMigrationSql as they are initialised (lines 581-582)
ParseStart ==
    /\ position = 1
    /\ ops = <<>>
    /\ warnings = <<>>

\* applySqlOps is not running and nothing was serialised
ReplayIdle ==
    /\ applied = 0
    /\ replayTables = <<>>
    /\ replayWarnings = <<>>
    /\ dsl = <<>>
    /\ reparsed = <<>>

\* generateSql was not called
GenIdle == generated = <<>>

\* runValidate was not called: process.exitCode is undefined, <<>>
ValidateIdle == findings = <<>> /\ report = <<>> /\ exitCode = <<>>

\* null / undefined of the source, for a value that is otherwise a name
Null == "<null>"

Range(s) == {s[i] : i \in 1..Len(s)}

RECURSIVE FlatMap(_, _)
FlatMap(F(_), s) ==
    IF s = <<>> THEN <<>> ELSE F(Head(s)) \o FlatMap(F, Tail(s))

\* F at the value of e, a local of the source: e is evaluated once, as the source does
\* when it assigns a const
With(e, F(_)) == CHOOSE r \in {F(x) : x \in {e}} : TRUE

\* Array.prototype.filter
Filter(P(_), s) == FlatMap(LAMBDA e : IF P(e) THEN <<e>> ELSE <<>>, s)

\* Object.keys(obj)
ObjectKeys(obj) == [i \in 1..Len(obj) |-> obj[i].key]

\* key in obj (own property)
HasKey(obj, k) == \E i \in 1..Len(obj) : obj[i].key = k

\* obj[k], for a key the object has
Get(obj, k) == obj[CHOOSE i \in 1..Len(obj) : obj[i].key = k].value

\* the permutations of a sequence
Perms(s) ==
    {[i \in 1..Len(s) |-> s[p[i]]] :
        p \in {q \in [1..Len(s) -> 1..Len(s)] : \A i, j \in 1..Len(s) : q[i] = q[j] => i = j}}

-----------------------------------------------------------------------------
(* Text *)

Upper == <<"A","B","C","D","E","F","G","H","I","J","K","L","M",
           "N","O","P","Q","R","S","T","U","V","W","X","Y","Z">>
Lower == <<"a","b","c","d","e","f","g","h","i","j","k","l","m",
           "n","o","p","q","r","s","t","u","v","w","x","y","z">>
Digits == {"0","1","2","3","4","5","6","7","8","9"}

\* /\s/ over the characters the model uses
IsSpace(c) == c \in {" ", "\n", "\t"}

LowerChar(c) ==
    IF \E i \in 1..26 : Upper[i] = c
    THEN Lower[CHOOSE i \in 1..26 : Upper[i] = c]
    ELSE c

\* String.prototype.toLowerCase
ToLowerCase(s) == [i \in 1..Len(s) |-> LowerChar(s[i])]

RECURSIVE TrimStart(_)
TrimStart(s) ==
    IF s # <<>> /\ IsSpace(Head(s)) THEN TrimStart(Tail(s)) ELSE s

RECURSIVE TrimEnd(_)
TrimEnd(s) ==
    IF s # <<>> /\ IsSpace(s[Len(s)]) THEN TrimEnd(SubSeq(s, 1, Len(s) - 1)) ELSE s

\* String.prototype.trim
Trim(s) == With(TrimStart(s), LAMBDA t : TrimEnd(t))

\* replace(/\s+/g, ' ')
RECURSIVE CollapseSpaces(_)
CollapseSpaces(s) ==
    IF s = <<>> THEN <<>>
    ELSE IF IsSpace(Head(s))
         THEN <<" ">> \o CollapseSpaces(TrimStart(s))
         ELSE <<Head(s)>> \o CollapseSpaces(Tail(s))

\* whether the run of white space starting at s[1] is followed by ch
RECURSIVE SpacesThen(_, _)
SpacesThen(s, ch) ==
    IF s = <<>> THEN FALSE
    ELSE IF Head(s) = ch THEN TRUE
    ELSE IF IsSpace(Head(s)) THEN SpacesThen(Tail(s), ch)
    ELSE FALSE

\* replace(/\s*<ch>\s*/g, '<ch>'), ch one of ( , )
RECURSIVE StripAround(_, _)
StripAround(s, ch) ==
    IF s = <<>> THEN <<>>
    ELSE IF Head(s) = ch THEN <<ch>> \o StripAround(TrimStart(Tail(s)), ch)
    ELSE IF IsSpace(Head(s)) /\ SpacesThen(s, ch) THEN StripAround(TrimStart(s), ch)
    ELSE <<Head(s)>> \o StripAround(Tail(s), ch)

-----------------------------------------------------------------------------
(* Names and their order *)

\* the collation order of the names the model uses
NameOrder == <<"a", "b", "c", "x", "y", "z">>

Rank(n) == CHOOSE i \in 1..Len(NameOrder) : NameOrder[i] = n

\* a.localeCompare(b) < 0
LocaleLess(a, b) == Rank(a) < Rank(b)

RECURSIVE InsertSorted(_, _)
InsertSorted(n, s) ==
    IF s = <<>> THEN <<n>>
    ELSE IF LocaleLess(n, Head(s)) THEN <<n>> \o s
    ELSE <<Head(s)>> \o InsertSorted(n, Tail(s))

\* a variant for comparison: the names in the order they were given (no sort)
GetSortedNamesUnsorted(names) == names

\* Array.from(names).sort((a, b) => a.localeCompare(b)); names: the set's
\* elements in insertion order
RECURSIVE GetSortedNames(_)
GetSortedNames(names) ==
    IF names = <<>> THEN <<>>
    ELSE InsertSorted(Head(names), GetSortedNames(Tail(names)))


-----------------------------------------------------------------------------
(* The diff engine: core/diff.ts *)

\* getTableNamesFromState / getTableNamesFromSchema / getColumnNamesFromState:
\* new Set(Object.keys(...)), the set's elements in insertion order
GetTableNamesFromState(state) == ObjectKeys(state.tables)
GetTableNamesFromSchema(schema) == ObjectKeys(schema.tables)
GetColumnNamesFromState(stateColumns) == ObjectKeys(stateColumns)

\* getColumnNamesFromSchema: new Set(dbColumns.map(column => column.name))
GetColumnNamesFromSchema(dbColumns) == {dbColumns[i].name : i \in 1..Len(dbColumns)}

\* a variant for comparison: the letter case of the type is kept
NormalizeColumnTypeKeepingCase(type) ==
    StripAround(StripAround(StripAround(CollapseSpaces(Trim(type)), "("), ","), ")")

NormalizeColumnType(type) ==
    StripAround(StripAround(StripAround(
        CollapseSpaces(Trim(ToLowerCase(type))), "("), ","), ")")

\* a variant for comparison: the first flagged column wins over the table's primaryKey field
ResolveStatePrimaryKeyFlagFirst(table) ==
    LET flagged == Filter(LAMBDA e : e.value.primaryKey, table.columns)
    IN  IF flagged # <<>> THEN flagged[1].key ELSE table.primaryKey

ResolveStatePrimaryKey(table) ==
    IF table.primaryKey # Null THEN table.primaryKey
    ELSE LET flagged == Filter(LAMBDA e : e.value.primaryKey, table.columns)
         IN  IF flagged # <<>> THEN flagged[1].key ELSE Null

ResolveSchemaPrimaryKey(table) ==
    IF table.primaryKey # Null THEN table.primaryKey
    ELSE LET flagged == Filter(LAMBDA c : c.primaryKey, table.columns)
         IN  IF flagged # <<>> THEN flagged[1].name ELSE Null

SortedNewTableNames(newS) == GetSortedNames(GetTableNamesFromSchema(newS))
SortedOldTableNames(old) == GetSortedNames(GetTableNamesFromState(old))

\* sortedNewTableNames.filter(tableName => oldTableNames.has(tableName))
CommonTableNames(old, newS) ==
    Filter(LAMBDA t : HasKey(old.tables, t), SortedNewTableNames(newS))

\* Phase 1: create tables (A-Z)
PhaseCreateTables(old, newS) ==
    FlatMap(LAMBDA t :
                IF ~HasKey(old.tables, t)
                THEN <<[kind |-> "create_table", table |-> Get(newS.tables, t)]>>
                ELSE <<>>,
            SortedNewTableNames(newS))

\* Phase 2: column type changes, in schema order
PhaseTypeChanges(old, newS) ==
    FlatMap(LAMBDA t :
        LET newTable == Get(newS.tables, t)
            oldTable == Get(old.tables, t)
        IN  FlatMap(LAMBDA column :
                IF ~HasKey(oldTable.columns, column.name) THEN <<>>
                ELSE LET previousColumn == Get(oldTable.columns, column.name)
                     IN  IF NormalizeColumnType(previousColumn.type)
                                # NormalizeColumnType(column.type)
                         THEN <<[kind |-> "column_type_changed", tableName |-> t,
                                 columnName |-> column.name,
                                 fromType |-> previousColumn.type,
                                 toType |-> column.type]>>
                         ELSE <<>>,
                newTable.columns),
        CommonTableNames(old, newS))

\* Phase 3: drop PK constraints for changed/removed primary keys
PhaseDropPrimaryKeys(old, newS) ==
    FlatMap(LAMBDA t :
        LET previousPrimaryKey == ResolveStatePrimaryKey(Get(old.tables, t))
            currentPrimaryKey == ResolveSchemaPrimaryKey(Get(newS.tables, t))
        IN  IF previousPrimaryKey # Null /\ previousPrimaryKey # currentPrimaryKey
            THEN <<[kind |-> "drop_primary_key_constraint", tableName |-> t]>>
            ELSE <<>>,
        CommonTableNames(old, newS))

\* Phase 4: unique changes for existing columns, in schema order
PhaseUniqueChanges(old, newS) ==
    FlatMap(LAMBDA t :
        LET newTable == Get(newS.tables, t)
            oldTable == Get(old.tables, t)
        IN  FlatMap(LAMBDA column :
                IF ~HasKey(oldTable.columns, column.name) THEN <<>>
                ELSE LET previousUnique == Get(oldTable.columns, column.name).unique
                         currentUnique == column.unique
                     IN  IF previousUnique # currentUnique
                         THEN <<[kind |-> "column_unique_changed", tableName |-> t,
                                 columnName |-> column.name,
                                 from |-> previousUnique, to |-> currentUnique]>>
                         ELSE <<>>,
                newTable.columns),
        CommonTableNames(old, newS))

\* Phase 5: add columns, in schema order
PhaseAddColumns(old, newS) ==
    FlatMap(LAMBDA t :
        LET newTable == Get(newS.tables, t)
            oldColumnNames == Range(GetColumnNamesFromState(Get(old.tables, t).columns))
        IN  FlatMap(LAMBDA column :
                IF column.name \notin oldColumnNames
                THEN <<[kind |-> "add_column", tableName |-> t, column |-> column]>>
                ELSE <<>>,
                newTable.columns),
        CommonTableNames(old, newS))

\* a variant for comparison: the constraint is added only where there was no key
PhaseAddPrimaryKeysOnlyWhenNew(old, newS) ==
    FlatMap(LAMBDA t :
        LET previousPrimaryKey == ResolveStatePrimaryKey(Get(old.tables, t))
            currentPrimaryKey == ResolveSchemaPrimaryKey(Get(newS.tables, t))
        IN  IF currentPrimaryKey # Null /\ previousPrimaryKey = Null
            THEN <<[kind |-> "add_primary_key_constraint", tableName |-> t,
                    columnName |-> currentPrimaryKey]>>
            ELSE <<>>,
        CommonTableNames(old, newS))

\* Phase 6: add PK constraints for added/changed primary keys
PhaseAddPrimaryKeys(old, newS) ==
    FlatMap(LAMBDA t :
        LET previousPrimaryKey == ResolveStatePrimaryKey(Get(old.tables, t))
            currentPrimaryKey == ResolveSchemaPrimaryKey(Get(newS.tables, t))
        IN  IF currentPrimaryKey # Null /\ previousPrimaryKey # currentPrimaryKey
            THEN <<[kind |-> "add_primary_key_constraint", tableName |-> t,
                    columnName |-> currentPrimaryKey]>>
            ELSE <<>>,
        CommonTableNames(old, newS))

\* Phase 7: drop columns, in state key order
PhaseDropColumns(old, newS) ==
    FlatMap(LAMBDA t :
        LET newColumnNames == GetColumnNamesFromSchema(Get(newS.tables, t).columns)
        IN  FlatMap(LAMBDA columnName :
                IF columnName \notin newColumnNames
                THEN <<[kind |-> "drop_column", tableName |-> t,
                        columnName |-> columnName]>>
                ELSE <<>>,
                ObjectKeys(Get(old.tables, t).columns)),
        CommonTableNames(old, newS))

\* Phase 8: drop tables (A-Z)
PhaseDropTables(old, newS) ==
    FlatMap(LAMBDA t :
                IF ~HasKey(newS.tables, t)
                THEN <<[kind |-> "drop_table", tableName |-> t]>>
                ELSE <<>>,
            SortedOldTableNames(old))

\* a variant for comparison: the primary key is added before the columns are
DiffSchemasPkBeforeColumns(old, newS) ==
    PhaseCreateTables(old, newS) \o PhaseTypeChanges(old, newS)
        \o PhaseDropPrimaryKeys(old, newS) \o PhaseUniqueChanges(old, newS)
        \o PhaseAddPrimaryKeys(old, newS) \o PhaseAddColumns(old, newS)
        \o PhaseDropColumns(old, newS) \o PhaseDropTables(old, newS)

\* a variant for comparison: the tables are dropped first
DiffSchemasDropTablesFirst(old, newS) ==
    PhaseDropTables(old, newS) \o PhaseCreateTables(old, newS)
        \o PhaseTypeChanges(old, newS)
        \o PhaseDropPrimaryKeys(old, newS) \o PhaseUniqueChanges(old, newS)
        \o PhaseAddColumns(old, newS) \o PhaseAddPrimaryKeys(old, newS)
        \o PhaseDropColumns(old, newS)

\* diffSchemas(oldState, newSchema).operations
DiffSchemas(old, newS) ==
    PhaseCreateTables(old, newS) \o PhaseTypeChanges(old, newS)
        \o PhaseDropPrimaryKeys(old, newS) \o PhaseUniqueChanges(old, newS)
        \o PhaseAddColumns(old, newS) \o PhaseAddPrimaryKeys(old, newS)
        \o PhaseDropColumns(old, newS) \o PhaseDropTables(old, newS)


-----------------------------------------------------------------------------
(* Structural validation: core/validator.ts *)

T_uuid == <<"u","u","i","d">>
T_varchar == <<"v","a","r","c","h","a","r">>
T_text == <<"t","e","x","t">>
T_int == <<"i","n","t">>
T_bigint == <<"b","i","g","i","n","t">>
T_boolean == <<"b","o","o","l","e","a","n">>
T_timestamptz == <<"t","i","m","e","s","t","a","m","p","t","z">>
T_date == <<"d","a","t","e">>

VALID_BASE_COLUMN_TYPES ==
    {T_uuid, T_varchar, T_text, T_int, T_bigint, T_boolean, T_timestamptz, T_date}

\* /^\d+$/
IsDigits(s) == s # <<>> /\ \A i \in 1..Len(s) : s[i] \in Digits

StartsWith(s, prefix) ==
    Len(s) >= Len(prefix) /\ SubSeq(s, 1, Len(prefix)) = prefix

\* /^varchar\(\d+\)$/
IsVarcharN(s) ==
    /\ StartsWith(s, T_varchar \o <<"(">>)
    /\ s[Len(s)] = ")"
    /\ IsDigits(SubSeq(s, Len(T_varchar) + 2, Len(s) - 1))

\* /^numeric\(\d+,\d+\)$/
IsNumericPS(s) ==
    LET head == <<"n","u","m","e","r","i","c","(">>
    IN  /\ StartsWith(s, head)
        /\ s[Len(s)] = ")"
        /\ \E k \in (Len(head) + 1)..(Len(s) - 1) :
              /\ s[k] = ","
              /\ IsDigits(SubSeq(s, Len(head) + 1, k - 1))
              /\ IsDigits(SubSeq(s, k + 1, Len(s) - 1))

IsValidColumnType(type) ==
    LET normalizedType ==
            StripAround(StripAround(StripAround(
                CollapseSpaces(Trim(ToLowerCase(type))), "("), ","), ")")
    IN  \/ normalizedType \in VALID_BASE_COLUMN_TYPES
        \/ IsVarcharN(normalizedType)
        \/ IsNumericPS(normalizedType)

\* validateTableColumns returns normally
TableColumnsValid(table, allTables) ==
    /\ \A i, j \in 1..Len(table.columns) :
          table.columns[i].name = table.columns[j].name => i = j
    /\ \A i \in 1..Len(table.columns) :
          LET column == table.columns[i]
          IN  /\ IsValidColumnType(column.type)
              /\ column.foreignKey # <<>> =>
                    /\ HasKey(allTables, column.foreignKey[1].table)
                    /\ \E col \in Range(Get(allTables, column.foreignKey[1].table).columns) :
                          col.name = column.foreignKey[1].column
    /\ Cardinality({i \in 1..Len(table.columns) : table.columns[i].primaryKey}) <= 1

\* validateSchema(schema) returns normally (does not throw)
ValidateSchema(schema) ==
    \A i \in 1..Len(schema.tables) :
        TableColumnsValid(schema.tables[i].value, schema.tables)

-----------------------------------------------------------------------------
(* The snapshot of a declared schema: schemaToState *)

\* nullable is normalised: an absent flag means nullable
StateColumnOf(column) ==
    [type |-> column.type, primaryKey |-> column.primaryKey, unique |-> column.unique,
     nullable |-> IF column.nullable = <<>> THEN <<TRUE>> ELSE column.nullable,
     default |-> column.default,
     foreignKey |-> column.foreignKey]

StateTableOf(table) ==
    [columns |-> [i \in 1..Len(table.columns) |->
                     [key |-> table.columns[i].name,
                      value |-> StateColumnOf(table.columns[i])]],
     primaryKey |-> table.primaryKey]

SchemaToState(schema) ==
    [version |-> 1,
     tables |-> [i \in 1..Len(schema.tables) |->
                    [key |-> schema.tables[i].key,
                     value |-> StateTableOf(schema.tables[i].value)]]]

-----------------------------------------------------------------------------
(* The inputs of the diff: bounded families of (snapshot, schema) pairs *)

\* an absent optional value is <<>>, a present one <<v>>
Column(n, ty, pk, uq, fk) ==
    [name |-> n, type |-> ty, primaryKey |-> pk, unique |-> uq,
     nullable |-> <<>>, default |-> <<>>, foreignKey |-> fk]

\* the sequences of at most n elements of pool, no two with the same name
SeqsByName(pool, n) ==
    UNION {{s \in [1..k -> pool] : \A i, j \in 1..k : s[i].name = s[j].name => i = j}
              : k \in 0..n}

SchemaOf(tables) ==
    [tables |-> [i \in 1..Len(tables) |-> [key |-> tables[i].name, value |-> tables[i]]]]

AllColNames == <<"x", "y", "z">>
AllTableNames == <<"a", "b", "c">>
ColNames == {AllColNames[i] : i \in 1..MaxCols}
TableNames == {AllTableNames[i] : i \in 1..MaxTables}

\* one table "a", up to MaxCols columns with every combination of type and flags
RichColumns ==
    {Column(n, ty, pk, uq, <<>>) :
        n \in ColNames, ty \in {T_int, T_bigint}, pk \in BOOLEAN, uq \in BOOLEAN}
RichTables ==
    {[name |-> "a", columns |-> cs, primaryKey |-> Null] :
        cs \in SeqsByName(RichColumns, MaxCols)}
RichSchemas == {SchemaOf(ts) : ts \in SeqsByName(RichTables, 1)}
RichStates == {SchemaToState(o) : o \in RichSchemas}
RichValid == {s \in RichSchemas : ValidateSchema(s)}
RichPairs == {[old |-> o, new |-> n] : o \in RichStates, n \in RichValid}

\* one table "a" that may name its primary key itself (as an imported schema does)
KeyColumns == {Column(n, T_int, pk, FALSE, <<>>) : n \in ColNames, pk \in BOOLEAN}
KeyTables ==
    {[name |-> "a", columns |-> cs, primaryKey |-> pk] :
        cs \in SeqsByName(KeyColumns, MaxCols), pk \in {Null} \cup ColNames}
KeySchemas == {SchemaOf(ts) : ts \in SeqsByName(KeyTables, 1)}
KeyStates == {SchemaToState(o) : o \in KeySchemas}
KeyValid == {s \in KeySchemas : ValidateSchema(s)}
KeyPairs == {[old |-> o, new |-> n] : o \in KeyStates, n \in KeyValid}

\* up to MaxTables tables of at most one column "x"
SmallColumns ==
    {Column("x", ty, pk, FALSE, <<>>) : ty \in {T_int, T_bigint}, pk \in BOOLEAN}
SmallTables ==
    {[name |-> t, columns |-> cs, primaryKey |-> Null] :
        t \in TableNames, cs \in SeqsByName(SmallColumns, 1)}
SmallSchemas == {SchemaOf(ts) : ts \in SeqsByName(SmallTables, MaxTables)}
SmallStates == {SchemaToState(o) : o \in SmallSchemas}
MultiPairs == {[old |-> o, new |-> n] : o \in SmallStates, n \in SmallSchemas}

\* up to MaxTables tables of at most one column "x", which may reference a column
FkColumns ==
    {Column("x", T_int, FALSE, FALSE, fk) :
        fk \in {<<>>} \cup {<<[table |-> t, column |-> "x"]>> : t \in TableNames}}
FkTables ==
    {[name |-> t, columns |-> cs, primaryKey |-> Null] :
        t \in TableNames, cs \in SeqsByName(FkColumns, 1)}
FkSchemas == {SchemaOf(ts) : ts \in SeqsByName(FkTables, MaxTables)}
FkStates == {SchemaToState(o) : o \in FkSchemas}
FkPairs == {[old |-> o, new |-> n] : o \in FkStates, n \in FkSchemas}

\* one table, one column, the type written in different ways
T_INT_upper == <<"I","N","T">>
T_int_padded == <<" ","i","n","t"," ">>
T_numeric == <<"n","u","m","e","r","i","c","(","1","0",",","2",")">>
T_numeric_spaced == <<"N","U","M","E","R","I","C","("," ","1","0"," ",","," ","2"," ",")">>
WrittenTypes == {T_int, T_INT_upper, T_int_padded, T_bigint, T_numeric, T_numeric_spaced}
TypeSchemas ==
    {SchemaOf(<<[name |-> "a", columns |-> <<Column("x", ty, FALSE, FALSE, <<>>)>>,
                 primaryKey |-> Null]>>) : ty \in WrittenTypes}
TypeStates == {SchemaToState(o) : o \in TypeSchemas}
TypePairs == {[old |-> o, new |-> n] : o \in TypeStates, n \in TypeSchemas}

\* up to MaxTables + 1 tables without columns, in every key order
EmptyTables ==
    {[name |-> AllTableNames[i], columns |-> <<>>, primaryKey |-> Null] :
        i \in 1..(MaxTables + 1)}
EmptySchemas == {SchemaOf(ts) : ts \in SeqsByName(EmptyTables, MaxTables + 1)}
EmptyStates == {SchemaToState(o) : o \in EmptySchemas}
EmptyPairs == {[old |-> o, new |-> n] : o \in EmptyStates, n \in EmptySchemas}

\* a schema that fails validation: two columns flagged primaryKey
InvalidPairs ==
    {[old |-> o, new |-> n] : o \in RichStates \cap SmallStates, n \in RichSchemas \ RichValid}

\* one table "a", one column "x" of type int, the nullable flag absent or written and
\* the default absent or written in different ways
D_now == <<"n", "o", "w", "(", ")">>
D_NOW_spaced == <<"N", "O", "W", "(", " ", ")">>
D_zero == <<"0">>
D_one == <<"1">>
D_text == <<"'", "a", " ", "b", "'">>
D_text_wide == <<"'", "a", " ", " ", "b", "'">>
WrittenDefaults == {<<>>} \cup {<<d>> : d \in {D_now, D_NOW_spaced, D_zero, D_one, D_text, D_text_wide}}
AttrColumn(nl, df) ==
    [name |-> "x", type |-> T_int, primaryKey |-> FALSE, unique |-> FALSE,
     nullable |-> nl, default |-> df, foreignKey |-> <<>>]
AttrSchemas ==
    {SchemaOf(<<[name |-> "a", columns |-> <<AttrColumn(nl, df)>>, primaryKey |-> Null]>>) :
        nl \in {<<>>, <<TRUE>>, <<FALSE>>}, df \in WrittenDefaults}
AttrStates == {SchemaToState(o) : o \in AttrSchemas}
AttrPairs == {[old |-> o, new |-> n] : o \in AttrStates, n \in AttrSchemas}

DiffInputs ==
    RichPairs \cup KeyPairs \cup MultiPairs \cup FkPairs \cup TypePairs
        \cup EmptyPairs \cup InvalidPairs \cup AttrPairs

-----------------------------------------------------------------------------
(* The diff specification: a call of diffSchemas, and runs of runGenerate *)

InitDiff ==
    /\ \E in \in DiffInputs : oldState = in.old /\ newSchema = in.new
    /\ operations = <<>>
    /\ outcome = "start"
    /\ runs = 0
    /\ migrations = 0
    /\ sql = <<>> /\ SplitStart /\ ParseStart /\ ReplayIdle /\ GenIdle /\ ValidateIdle /\ phase = "idle"

\* diffSchemas(oldState, newSchema), called directly
CallDiffSchemas ==
    /\ outcome = "start"
    /\ operations' = DiffSchemas(oldState, newSchema)
    /\ outcome' = "diffed"
    /\ UNCHANGED <<oldState, newSchema, runs, migrations, splitVars, parseVars, replayVars, genVars, validateVars, phase>>

\* runGenerate: validate, load the state, diff, write the migration, save the state
RunGenerate ==
    /\ outcome \in {"start", "nochange", "generated"}
    /\ runs < MaxRuns
    /\ runs' = runs + 1
    /\ UNCHANGED <<splitVars, parseVars, replayVars, genVars, validateVars, phase>>
    /\ IF ~ValidateSchema(newSchema)
       THEN /\ outcome' = "invalid"
            /\ UNCHANGED <<oldState, newSchema, operations, migrations>>
       ELSE LET diff == DiffSchemas(oldState, newSchema)
            IN  IF diff = <<>>
                THEN /\ operations' = <<>>
                     /\ outcome' = "nochange"
                     /\ UNCHANGED <<oldState, newSchema, migrations>>
                ELSE /\ operations' = diff
                     /\ migrations' = migrations + 1
                     /\ oldState' = SchemaToState(newSchema)
                     /\ outcome' = "generated"
                     /\ UNCHANGED newSchema

NextDiff == CallDiffSchemas \/ RunGenerate

SpecDiff == InitDiff /\ [][NextDiff]_vars


-----------------------------------------------------------------------------
(* Reading an operation sequence *)

IsKind(op, k) == op.kind = k

\* the positions of the operations of kind k
Positions(opList, k) == {i \in 1..Len(opList) : opList[i].kind = k}

\* the table an operation is about
OpTable(op) == IF op.kind = "create_table" THEN op.table.name ELSE op.tableName

PhaseOf(kind) ==
    CASE kind = "create_table" -> 1
      [] kind = "column_type_changed" -> 2
      [] kind = "drop_primary_key_constraint" -> 3
      [] kind = "column_unique_changed" -> 4
      [] kind = "add_column" -> 5
      [] kind = "add_primary_key_constraint" -> 6
      [] kind = "drop_column" -> 7
      [] kind = "drop_table" -> 8

\* the snapshots that differ from st only in the key order of tables and of columns
ColumnOrders(entry) ==
    {[key |-> entry.key, value |-> [entry.value EXCEPT !.columns = p]] :
        p \in Perms(entry.value.columns)}
StateKeyOrders(st) ==
    LET n == Len(st.tables)
        choices == {f \in [1..n -> UNION {ColumnOrders(st.tables[i]) : i \in 1..n}] :
                       \A i \in 1..n : f[i] \in ColumnOrders(st.tables[i])}
    IN  {[st EXCEPT !.tables = q] : q \in UNION {Perms(f) : f \in choices}}

\* the schemas that differ from sc only in the key order of tables
SchemaKeyOrders(sc) == {[sc EXCEPT !.tables = q] : q \in Perms(sc.tables)}

-----------------------------------------------------------------------------
(* C1: idempotence *)

\* C1: the diff of a valid schema against the snapshot derived from it is empty,
\* and the second of two runGenerate runs on an unchanged schema reports no changes.
C1_Idempotence ==
    /\ (outcome = "diffed" /\ ValidateSchema(newSchema)
            /\ oldState = SchemaToState(newSchema)) => operations = <<>>
    /\ (runs >= 2 /\ outcome # "invalid") => (outcome = "nochange" /\ operations = <<>>)

\* a first run wrote a migration and saved the snapshot, the second found no changes
C1_Witness == runs = 2 /\ migrations = 1 /\ outcome = "nochange"

-----------------------------------------------------------------------------
(* C2: determinism under key reordering *)

\* C2: reordering the keys of old.tables, of the columns of an old table, or of
\* new.tables does not change the operation sequence diffSchemas returns.
C2_KeyOrderDeterminism ==
    outcome = "diffed" =>
        \A o \in StateKeyOrders(oldState), n \in SchemaKeyOrders(newSchema) :
            DiffSchemas(o, n) = operations


-----------------------------------------------------------------------------
(* C3: safety of the emitted order *)

\* The database an operation sequence is applied to has the shape of a snapshot.
\* The foreign keys held by the columns of db, as [table, column] targets
ForeignKeysOf(db) ==
    {db.tables[i].value.columns[j].value.foreignKey[1] :
        <<i, j>> \in {<<i2, j2>> \in (1..Len(db.tables)) \X (1..MaxCols + 1) :
                        /\ j2 <= Len(db.tables[i2].value.columns)
                        /\ db.tables[i2].value.columns[j2].value.foreignKey # <<>>}}

HasColumn(db, t, c) == HasKey(db.tables, t) /\ HasKey(Get(db.tables, t).columns, c)

\* the foreign key of a column being created refers to a table and column that
\* exist, or to a column of the table being created
TargetExists(db, column, ownTable) ==
    column.foreignKey # <<>> =>
        \/ HasColumn(db, column.foreignKey[1].table, column.foreignKey[1].column)
        \/ /\ ownTable.name = column.foreignKey[1].table
           /\ \E c \in Range(ownTable.columns) : c.name = column.foreignKey[1].column

\* op refers only to what exists in db, and drops nothing a foreign key refers to
OpSafe(db, op) ==
    CASE op.kind = "create_table" ->
            /\ ~HasKey(db.tables, op.table.name)
            /\ \A c \in Range(op.table.columns) : TargetExists(db, c, op.table)
      [] op.kind = "add_column" ->
            /\ HasKey(db.tables, op.tableName)
            /\ ~HasColumn(db, op.tableName, op.column.name)
            /\ TargetExists(db, op.column,
                            [name |-> op.tableName, columns |-> <<op.column>>])
      [] op.kind \in {"column_type_changed", "column_unique_changed",
                      "add_primary_key_constraint"} ->
            HasColumn(db, op.tableName, op.columnName)
      [] op.kind = "drop_primary_key_constraint" -> HasKey(db.tables, op.tableName)
      [] op.kind = "drop_column" ->
            /\ HasColumn(db, op.tableName, op.columnName)
            /\ \A fk \in ForeignKeysOf(db) :
                  ~(fk.table = op.tableName /\ fk.column = op.columnName)
      [] op.kind = "drop_table" ->
            /\ HasKey(db.tables, op.tableName)
            /\ \A i \in 1..Len(db.tables) :
                  db.tables[i].key # op.tableName =>
                      \A e \in Range(db.tables[i].value.columns) :
                          e.value.foreignKey # <<>> =>
                              e.value.foreignKey[1].table # op.tableName

\* db with the column of table t named c replaced by f(column)
WithColumn(db, t, c, F(_)) ==
    [db EXCEPT !.tables = [i \in 1..Len(db.tables) |->
        IF db.tables[i].key # t THEN db.tables[i]
        ELSE [db.tables[i] EXCEPT !.value.columns =
                 [j \in 1..Len(db.tables[i].value.columns) |->
                     IF db.tables[i].value.columns[j].key # c
                     THEN db.tables[i].value.columns[j]
                     ELSE [key |-> c,
                           value |-> F(db.tables[i].value.columns[j].value)]]]]]

\* db with the table t replaced by f(table)
WithTable(db, t, F(_)) ==
    [db EXCEPT !.tables = [i \in 1..Len(db.tables) |->
        IF db.tables[i].key # t THEN db.tables[i]
        ELSE [key |-> t, value |-> F(db.tables[i].value)]]]

\* the database after op
ApplyOp(db, op) ==
    CASE op.kind = "create_table" ->
            [db EXCEPT !.tables =
                Append(@, [key |-> op.table.name, value |-> StateTableOf(op.table)])]
      [] op.kind = "drop_table" ->
            [db EXCEPT !.tables = Filter(LAMBDA e : e.key # op.tableName, @)]
      [] op.kind = "add_column" ->
            WithTable(db, op.tableName, LAMBDA tb :
                [tb EXCEPT !.columns =
                    Append(@, [key |-> op.column.name, value |-> StateColumnOf(op.column)])])
      [] op.kind = "drop_column" ->
            WithTable(db, op.tableName, LAMBDA tb :
                [tb EXCEPT !.columns = Filter(LAMBDA e : e.key # op.columnName, @)])
      [] op.kind = "column_type_changed" ->
            WithColumn(db, op.tableName, op.columnName,
                       LAMBDA col : [col EXCEPT !.type = op.toType])
      [] op.kind = "column_unique_changed" ->
            WithColumn(db, op.tableName, op.columnName,
                       LAMBDA col : [col EXCEPT !.unique = op.to])
      [] op.kind = "drop_primary_key_constraint" ->
            WithTable(db, op.tableName, LAMBDA tb :
                [primaryKey |-> Null,
                 columns |-> [j \in 1..Len(tb.columns) |->
                     [key |-> tb.columns[j].key,
                      value |-> [tb.columns[j].value EXCEPT !.primaryKey = FALSE]]]])
      [] op.kind = "add_primary_key_constraint" ->
            WithTable(db, op.tableName, LAMBDA tb :
                [primaryKey |-> op.columnName,
                 columns |-> [j \in 1..Len(tb.columns) |->
                     [key |-> tb.columns[j].key,
                      value |-> [tb.columns[j].value EXCEPT
                                    !.primaryKey = (tb.columns[j].key = op.columnName)]]]])

\* every operation of opList is safe in the database the operations before it produce
RECURSIVE SafeSequence(_, _)
SafeSequence(db, opList) ==
    opList = <<>> \/ (OpSafe(db, Head(opList)) /\ SafeSequence(ApplyOp(db, Head(opList)), Tail(opList)))

\* the snapshot is the snapshot of a valid schema of the input families
ValidStates ==
    {SchemaToState(sc) :
        sc \in {s \in RichSchemas \cup KeySchemas \cup SmallSchemas \cup FkSchemas
                        \cup TypeSchemas \cup EmptySchemas : ValidateSchema(s)}}
DerivedFromValidSchema(st) == st \in ValidStates

\* C3: applied one at a time from old, every operation diffSchemas returns refers
\* only to tables and columns that exist at that step (foreign-key targets
\* included), and no drop removes what a foreign key of an existing column refers to.
C3_SafeOrder ==
    (outcome = "diffed" /\ ValidateSchema(newSchema) /\ DerivedFromValidSchema(oldState))
        => SafeSequence(oldState, operations)


-----------------------------------------------------------------------------
(* C4: ordering for a renamed primary key *)

\* table t is in both inputs and its resolved primary key changes from a column
\* to another column, one the snapshot does not have
PkRenamed(t) ==
    /\ HasKey(oldState.tables, t) /\ HasKey(newSchema.tables, t)
    /\ LET A == ResolveStatePrimaryKey(Get(oldState.tables, t))
           B == ResolveSchemaPrimaryKey(Get(newSchema.tables, t))
       IN  A # Null /\ B # Null /\ A # B /\ ~HasKey(Get(oldState.tables, t).columns, B)

PkOf(t) == ResolveSchemaPrimaryKey(Get(newSchema.tables, t))

DropPkAt(t) ==
    {i \in Positions(operations, "drop_primary_key_constraint") :
        operations[i].tableName = t}
AddPkAt(t) ==
    {i \in Positions(operations, "add_primary_key_constraint") :
        operations[i].tableName = t}
AddColumnAt(t, c) ==
    {i \in Positions(operations, "add_column") :
        operations[i].tableName = t /\ operations[i].column.name = c}

\* C4 as stated: drop_primary_key_constraint is before add_primary_key_constraint
\* and both are after the add_column that creates the new key column.
C4_AsStated ==
    outcome = "diffed" =>
        \A t \in TableNames : PkRenamed(t) =>
            /\ DropPkAt(t) # {} /\ AddPkAt(t) # {}
            /\ \A d \in DropPkAt(t), a \in AddPkAt(t) : d < a
            /\ \A c \in AddColumnAt(t, PkOf(t)) :
                  \A i \in DropPkAt(t) \cup AddPkAt(t) : c < i

\* C4 (amended): drop_primary_key_constraint is before add_primary_key_constraint,
\* add_primary_key_constraint is after the add_column that creates the new key
\* column, and drop_primary_key_constraint is before that add_column.
C4_PkRenameOrder ==
    outcome = "diffed" =>
        \A t \in TableNames : PkRenamed(t) =>
            /\ Cardinality(DropPkAt(t)) = 1 /\ Cardinality(AddPkAt(t)) = 1
            /\ \A d \in DropPkAt(t), a \in AddPkAt(t) : d < a
            /\ \A c \in AddColumnAt(t, PkOf(t)) :
                  /\ \A a \in AddPkAt(t) : c < a
                  /\ \A d \in DropPkAt(t) : d < c

\* the key of table a moves to a column that the diff adds
C4_Witness ==
    outcome = "diffed" /\ PkRenamed("a") /\ AddColumnAt("a", PkOf("a")) # {}

-----------------------------------------------------------------------------
(* C5: fixed phase order *)

\* C5: the operations are grouped by kind in the order create_table,
\* column_type_changed, drop_primary_key_constraint, column_unique_changed,
\* add_column, add_primary_key_constraint, drop_column, drop_table.
C5_PhaseOrder ==
    outcome \in {"diffed", "generated"} =>
        \A i, j \in 1..Len(operations) :
            i < j => PhaseOf(operations[i].kind) <= PhaseOf(operations[j].kind)

\* a sequence with operations of four kinds or more
C5_Witness ==
    /\ outcome = "diffed"
    /\ Cardinality({operations[i].kind : i \in 1..Len(operations)}) >= 4

-----------------------------------------------------------------------------
(* C6: table creation and removal *)

\* the table names of the operations of kind k, in the order of the sequence
RECURSIVE TablesOfKind(_, _)
TablesOfKind(opList, k) ==
    IF opList = <<>> THEN <<>>
    ELSE (IF Head(opList).kind = k THEN <<OpTable(Head(opList))>> ELSE <<>>)
            \o TablesOfKind(Tail(opList), k)

StrictlyAscending(names) ==
    \A i, j \in 1..Len(names) : i < j => LocaleLess(names[i], names[j])

\* C6: one create_table per table of new that old lacks, one drop_table per
\* table of old that new lacks, each group in lexicographic order of table name,
\* and every create_table before every drop_table.
C6_CreateAndDropTables ==
    outcome = "diffed" =>
        LET created == TablesOfKind(operations, "create_table")
            dropped == TablesOfKind(operations, "drop_table")
            oldNames == Range(ObjectKeys(oldState.tables))
            newNames == Range(ObjectKeys(newSchema.tables))
        IN  /\ Range(created) = newNames \ oldNames
            /\ Range(dropped) = oldNames \ newNames
            /\ StrictlyAscending(created)
            /\ StrictlyAscending(dropped)
            /\ \A c \in Positions(operations, "create_table"),
                  d \in Positions(operations, "drop_table") : c < d

\* two tables are created from a schema that lists them in descending order, and
\* a table is dropped
C6_Witness ==
    /\ outcome = "diffed"
    /\ Len(TablesOfKind(operations, "create_table")) = 2
    /\ Len(TablesOfKind(operations, "drop_table")) = 1
    /\ ~StrictlyAscending(ObjectKeys(newSchema.tables))

-----------------------------------------------------------------------------
(* The statement splitter, core/sql/split-statements.ts.  One action per    *)
(* branch of the scan loop; a step is one iteration of the loop.            *)

\* the length of the strings the splitter is run on exhaustively
MaxLen == 4

\* the characters the scanner distinguishes, a letter and a blank
Alphabet == {"'", "\"", ";", "-", "\n", "/", "*", "$", "a", " "}

\* a 'a;a';a
Sql_QuotedSemicolon ==
    <<"a", " ", "'", "a", ";", "a", "'", ";", "a">>

\* 'a'';a';a
Sql_EscapedSingle ==
    <<"'", "a", "'", "'", ";", "a", "'", ";", "a">>

\* "a"";a";a
Sql_EscapedDouble ==
    <<"\"", "a", "\"", "\"", ";", "a", "\"", ";", "a">>

\* $a$;$a$;a
Sql_DollarTagged ==
    <<"$", "a", "$", ";", "$", "a", "$", ";", "a">>

\* $$;$$;a
Sql_DollarBare ==
    <<"$", "$", ";", "$", "$", ";", "a">>

\* $a1$;$a$;$a1$;a
Sql_DollarNested ==
    <<"$", "a", "1", "$", ";", "$", "a", "$", ";", "$", "a", "1", "$", ";", "a">>

\* $1$;a
Sql_DollarNotATag ==
    <<"$", "1", "$", ";", "a">>

\* /*;*/a;a
Sql_BlockComment ==
    <<"/", "*", ";", "*", "/", "a", ";", "a">>

\* --;\na;a
Sql_LineComment ==
    <<"-", "-", ";", "\n", "a", ";", "a">>

\* a;'a;a
Sql_Unterminated ==
    <<"a", ";", "'", "a", ";", "a">>

SplitCorpus ==
    {Sql_QuotedSemicolon, Sql_EscapedSingle, Sql_EscapedDouble,
     Sql_DollarTagged, Sql_DollarBare, Sql_DollarNested,
     Sql_DollarNotATag, Sql_BlockComment, Sql_LineComment,
     Sql_Unterminated}

SplitInputs == UNION {[1..n -> Alphabet] : n \in 0..MaxLen} \cup SplitCorpus

\* sql.startsWith(prefix, i)
StartsWithAt(s, prefix, i) ==
    /\ i + Len(prefix) - 1 <= Len(s)
    /\ SubSeq(s, i, i + Len(prefix) - 1) = prefix

IsTagStart(c) == c \in Range(Lower) \cup Range(Upper) \cup {"_"}
IsTagPart(c) == IsTagStart(c) \/ c \in Digits

\* where [a-zA-Z0-9_]* stops, from position i
RECURSIVE TagBodyEnd(_, _)
TagBodyEnd(s, i) ==
    IF i <= Len(s) /\ IsTagPart(s[i]) THEN TagBodyEnd(s, i + 1) ELSE i

\* remainder.match(/^\$[a-zA-Z_][a-zA-Z0-9_]*\$|^\$\$/): the tag, NoTag when no match
MatchDollarTag(remainder) ==
    IF Len(remainder) < 2 \/ remainder[1] # "$" THEN NoTag
    ELSE IF IsTagStart(remainder[2])
              /\ TagBodyEnd(remainder, 3) <= Len(remainder)
              /\ remainder[TagBodyEnd(remainder, 3)] = "$"
         THEN SubSeq(remainder, 1, TagBodyEnd(remainder, 3))
         ELSE IF remainder[2] = "$" THEN <<"$", "$">> ELSE NoTag

\* a variant for comparison: a doubled quote ends the quoted region
QuoteStepPairCloses(inQuote, next, q) ==
    IF inQuote /\ next = q
    THEN [inQuote |-> FALSE, advance |-> 2]
    ELSE [inQuote |-> ~inQuote, advance |-> 1]

\* a quote character q read with the flag inQuote: a doubled quote inside the region is
\* consumed whole and leaves the flag, any other quote toggles it
QuoteStep(inQuote, next, q) ==
    IF inQuote /\ next = q
    THEN [inQuote |-> inQuote, advance |-> 2]
    ELSE [inQuote |-> ~inQuote, advance |-> 1]

\* a variant for comparison: the text is pushed as it was read
EmitUntrimmed(stmts, text) == Append(stmts, text)

\* const statement = current.trim(); if (statement.length > 0) statements.push(statement)
Emit(stmts, text) ==
    IF Len(Trim(text)) > 0 THEN Append(stmts, Trim(text)) ELSE stmts

Char == sql[index]
NextChar == IF index + 1 <= Len(sql) THEN sql[index + 1] ELSE ""

\* the loop condition
Scanning == phase = "scan" /\ index <= Len(sql)
\* neither comment branch took the character
InCode == Scanning /\ ~inLineComment /\ ~inBlockComment

\* current += <the next n characters>; index += n
Consume(n) ==
    /\ current' = current \o SubSeq(sql, index, index + n - 1)
    /\ index' = index + n

Unquoted == ~inSingleQuote /\ ~inDoubleQuote /\ dollarTag = NoTag
AtLineComment == Unquoted /\ Char = "-" /\ NextChar = "-"
AtBlockComment == Unquoted /\ Char = "/" /\ NextChar = "*"
\* a variant for comparison: the quote is taken inside a double-quoted identifier too
AtSingleQuoteInIdentifier == dollarTag = NoTag /\ Char = "'"
AtSingleQuote == ~inDoubleQuote /\ dollarTag = NoTag /\ Char = "'"
AtDoubleQuote == ~inSingleQuote /\ dollarTag = NoTag /\ Char = "\""
AtDollarOpen ==
    /\ ~inSingleQuote /\ ~inDoubleQuote /\ dollarTag = NoTag /\ Char = "$"
    /\ MatchDollarTag(SubSeq(sql, index, Len(sql))) # NoTag
AtDollarClose ==
    /\ ~inSingleQuote /\ ~inDoubleQuote /\ dollarTag # NoTag
    /\ StartsWithAt(sql, dollarTag, index)

\* a variant for comparison: every ';' outside a comment ends the statement
AtSemicolonAnywhere == Char = ";"

AtSemicolon == ~inSingleQuote /\ ~inDoubleQuote /\ dollarTag = NoTag /\ Char = ";"

StepLineComment ==
    /\ Scanning /\ inLineComment
    /\ Consume(1)
    /\ inLineComment' = (Char # "\n")
    /\ UNCHANGED <<sql, statements, inSingleQuote, inDoubleQuote, inBlockComment, dollarTag>>
    /\ UNCHANGED <<diffVars, parseVars, replayVars, genVars, validateVars, phase>>

StepBlockComment ==
    /\ Scanning /\ ~inLineComment /\ inBlockComment
    /\ IF Char = "*" /\ NextChar = "/"
       THEN Consume(2) /\ inBlockComment' = FALSE
       ELSE Consume(1) /\ inBlockComment' = TRUE
    /\ UNCHANGED <<sql, statements, inSingleQuote, inDoubleQuote, inLineComment, dollarTag>>
    /\ UNCHANGED <<diffVars, parseVars, replayVars, genVars, validateVars, phase>>

EnterLineComment ==
    /\ InCode /\ AtLineComment
    /\ Consume(2)
    /\ inLineComment' = TRUE
    /\ UNCHANGED <<sql, statements, inSingleQuote, inDoubleQuote, inBlockComment, dollarTag>>
    /\ UNCHANGED <<diffVars, parseVars, replayVars, genVars, validateVars, phase>>

EnterBlockComment ==
    /\ InCode /\ AtBlockComment
    /\ Consume(2)
    /\ inBlockComment' = TRUE
    /\ UNCHANGED <<sql, statements, inSingleQuote, inDoubleQuote, inLineComment, dollarTag>>
    /\ UNCHANGED <<diffVars, parseVars, replayVars, genVars, validateVars, phase>>

StepSingleQuote ==
    /\ InCode /\ AtSingleQuote
    /\ Consume(QuoteStep(inSingleQuote, NextChar, "'").advance)
    /\ inSingleQuote' = QuoteStep(inSingleQuote, NextChar, "'").inQuote
    /\ UNCHANGED <<sql, statements, inDoubleQuote, inLineComment, inBlockComment, dollarTag>>
    /\ UNCHANGED <<diffVars, parseVars, replayVars, genVars, validateVars, phase>>

StepDoubleQuote ==
    /\ InCode /\ AtDoubleQuote
    /\ Consume(QuoteStep(inDoubleQuote, NextChar, "\"").advance)
    /\ inDoubleQuote' = QuoteStep(inDoubleQuote, NextChar, "\"").inQuote
    /\ UNCHANGED <<sql, statements, inSingleQuote, inLineComment, inBlockComment, dollarTag>>
    /\ UNCHANGED <<diffVars, parseVars, replayVars, genVars, validateVars, phase>>

OpenDollarTag ==
    /\ InCode /\ AtDollarOpen
    /\ dollarTag' = MatchDollarTag(SubSeq(sql, index, Len(sql)))
    /\ Consume(Len(MatchDollarTag(SubSeq(sql, index, Len(sql)))))
    /\ UNCHANGED <<sql, statements, inSingleQuote, inDoubleQuote, inLineComment,
                   inBlockComment>>
    /\ UNCHANGED <<diffVars, parseVars, replayVars, genVars, validateVars, phase>>

CloseDollarTag ==
    /\ InCode /\ AtDollarClose
    /\ Consume(Len(dollarTag))
    /\ dollarTag' = NoTag
    /\ UNCHANGED <<sql, statements, inSingleQuote, inDoubleQuote, inLineComment,
                   inBlockComment>>
    /\ UNCHANGED <<diffVars, parseVars, replayVars, genVars, validateVars, phase>>

EndStatement ==
    /\ InCode /\ AtSemicolon
    /\ statements' = Emit(statements, current)
    /\ current' = <<>>
    /\ index' = index + 1
    /\ UNCHANGED <<sql, inSingleQuote, inDoubleQuote, inLineComment, inBlockComment,
                   dollarTag>>
    /\ UNCHANGED <<diffVars, parseVars, replayVars, genVars, validateVars, phase>>

AppendChar ==
    /\ InCode
    /\ ~AtLineComment /\ ~AtBlockComment /\ ~AtSingleQuote /\ ~AtDoubleQuote
    /\ ~AtDollarOpen /\ ~AtDollarClose /\ ~AtSemicolon
    /\ Consume(1)
    /\ UNCHANGED <<sql, statements, inSingleQuote, inDoubleQuote, inLineComment,
                   inBlockComment, dollarTag>>
    /\ UNCHANGED <<diffVars, parseVars, replayVars, genVars, validateVars, phase>>

\* the loop is left: the tail is emitted and the statements are returned
ReturnStatements ==
    /\ phase = "scan" /\ index > Len(sql)
    /\ statements' = Emit(statements, current)
    /\ phase' = "done"
    /\ UNCHANGED <<sql, index, current, inSingleQuote, inDoubleQuote, inLineComment,
                   inBlockComment, dollarTag>>
    /\ UNCHANGED <<diffVars, parseVars, replayVars, genVars, validateVars>>

\* the diff engine is not running
DiffIdle ==
    /\ oldState = SchemaToState(SchemaOf(<<>>))
    /\ newSchema = SchemaOf(<<>>)
    /\ operations = <<>>
    /\ outcome = "idle"
    /\ runs = 0
    /\ migrations = 0

InitSplit ==
    /\ sql \in SplitInputs
    /\ SplitStart /\ ParseStart /\ ReplayIdle /\ GenIdle /\ ValidateIdle /\ DiffIdle
    /\ phase = "scan"

NextSplit ==
    \/ StepLineComment \/ StepBlockComment \/ EnterLineComment \/ EnterBlockComment
    \/ StepSingleQuote \/ StepDoubleQuote \/ OpenDollarTag \/ CloseDollarTag
    \/ EndStatement \/ AppendChar \/ ReturnStatements

SpecSplit == InitSplit /\ [][NextSplit]_vars

\* the scan is a loop of one thread: a step that can be taken is taken
SpecSplitLive == SpecSplit /\ WF_vars(NextSplit)

-----------------------------------------------------------------------------
(* Reading a scan *)

\* no quote, comment or dollar-quoted block is open
InDefaultContext ==
    /\ ~inSingleQuote /\ ~inDoubleQuote /\ ~inLineComment /\ ~inBlockComment
    /\ dollarTag = NoTag

\* what a statement boundary after the text read so far adds to the statements
Boundary(text) == IF Trim(text) = <<>> THEN <<>> ELSE <<Trim(text)>>

\* s with t at its end
EndsWith(s, t) == Len(t) <= Len(s) /\ SubSeq(s, Len(s) - Len(t) + 1, Len(s)) = t

-----------------------------------------------------------------------------
(* C7: statement boundaries *)

\* the step at a ';' read in the default context ends the statement
SemicolonInDefaultEnds ==
    (Scanning /\ Char = ";" /\ InDefaultContext)
        => /\ current' = <<>>
           /\ index' = index + 1
           /\ statements' = statements \o Boundary(current)

\* the step at a ';' read in any other context keeps it in the statement
SemicolonElsewhereStays ==
    (Scanning /\ Char = ";" /\ ~InDefaultContext)
        => /\ current' = Append(current, ";")
           /\ index' = index + 1
           /\ statements' = statements

\* a step that takes several characters takes no ';' after its first
NoSemicolonSkipped ==
    Scanning => \A k \in (index + 1)..(index' - 1) : sql[k] # ";"

\* the statements change at a ';' read in the default context, and at the end of input
StatementsOnlyAtBoundary ==
    (Scanning /\ statements' # statements) => (Char = ";" /\ InDefaultContext)

\* C7: a ';' ends the statement if and only if it is read in the default context;
\* in a single-quoted string, a double-quoted identifier, a line comment, a block comment
\* or a dollar-quoted block it stays in the statement, so a 'a;a' is one statement.
C7_SemicolonEndsOnlyInDefault ==
    /\ [][SemicolonInDefaultEnds /\ SemicolonElsewhereStays /\ NoSemicolonSkipped
            /\ StatementsOnlyAtBoundary]_vars
    /\ [](phase = "done" =>
            /\ sql = Sql_QuotedSemicolon =>
                  statements = <<SubSeq(Sql_QuotedSemicolon, 1, 7), <<"a">>>>
            /\ sql = Sql_DollarTagged =>
                  statements = <<SubSeq(Sql_DollarTagged, 1, 7), <<"a">>>>
            /\ sql = Sql_BlockComment =>
                  statements = <<SubSeq(Sql_BlockComment, 1, 6), <<"a">>>>
            /\ sql = Sql_LineComment =>
                  statements = <<SubSeq(Sql_LineComment, 1, 5), <<"a">>>>)

\* a scan that ended one statement at a ';' and kept another ';' inside a statement
C7_Witness ==
    /\ phase = "done"
    /\ Len(statements) >= 2
    /\ \E i \in 1..Len(statements) : ";" \in Range(statements[i])

-----------------------------------------------------------------------------
(* C8: the splitter is total *)

\* a step of the loop moves the cursor forward, and not past the end of the input
CursorAdvances == Scanning => (index < index' /\ index' <= Len(sql) + 1)

\* current is the text read since the last boundary (or since the start)
CurrentIsTextSinceBoundary ==
    /\ Len(current) < index
    /\ current = SubSeq(sql, index - Len(current), index - 1)
    /\ index - Len(current) = 1 \/ sql[index - Len(current) - 1] = ";"

\* leaving the loop emits the text since the last boundary, trimmed, when it is not empty
TailIsEmitted ==
    (phase = "scan" /\ phase' = "done")
        => /\ index = Len(sql) + 1
           /\ statements' = statements \o Boundary(current)

EmittedStatementsAreTrimmed ==
    \A i \in 1..Len(statements) :
        statements[i] # <<>> /\ Trim(statements[i]) = statements[i]

\* C8: the scan terminates for every input, every step advancing the cursor; a quote,
\* comment or dollar-quoted block left open runs to the end of the input and is part of
\* the last statement; the text after the last boundary is emitted if it is not empty
\* after trimming; every emitted statement is non-empty and trimmed.
C8_SplitterIsTotal ==
    /\ <>(phase = "done")
    /\ [][CursorAdvances /\ TailIsEmitted]_vars
    /\ [](phase \in {"scan", "done"} => CurrentIsTextSinceBoundary)
    /\ []EmittedStatementsAreTrimmed
    /\ []((phase = "done" /\ ~InDefaultContext) =>
            /\ statements # <<>>
            /\ statements[Len(statements)] = Trim(current)
            /\ EndsWith(sql, TrimStart(current)))

\* a scan that ended with a quote still open, after a statement of its own
C8_Witness ==
    /\ phase = "done"
    /\ inSingleQuote
    /\ Len(statements) = 2
    /\ ";" \in Range(statements[2])

-----------------------------------------------------------------------------
(* C9: doubled quotes *)

\* reading '' inside a single-quoted string takes both and stays inside
DoubledSingleQuoteStays ==
    (Scanning /\ inSingleQuote /\ Char = "'" /\ NextChar = "'")
        => /\ inSingleQuote'
           /\ index' = index + 2
           /\ current' = current \o <<"'", "'">>
           /\ statements' = statements

\* reading "" inside a double-quoted identifier takes both and stays inside
DoubledDoubleQuoteStays ==
    (Scanning /\ inDoubleQuote /\ Char = "\"" /\ NextChar = "\"")
        => /\ inDoubleQuote'
           /\ index' = index + 2
           /\ current' = current \o <<"\"", "\"">>
           /\ statements' = statements

\* C9: a doubled quote read inside a quoted region of its own kind is an escape: the
\* scanner stays in the region, so a ';' between the pair and the closing quote does not
\* end the statement.
C9_DoubledQuotesAreEscapes ==
    /\ [][DoubledSingleQuoteStays /\ DoubledDoubleQuoteStays]_vars
    /\ [](phase = "done" =>
            /\ sql = Sql_EscapedSingle =>
                  statements = <<SubSeq(Sql_EscapedSingle, 1, 7), <<"a">>>>
            /\ sql = Sql_EscapedDouble =>
                  statements = <<SubSeq(Sql_EscapedDouble, 1, 7), <<"a">>>>)

\* a scan that read a doubled quote, then a ';', inside a quoted region
C9_Witness ==
    /\ phase = "done"
    /\ \E i \in 1..Len(statements) :
          \E k \in 2..(Len(statements[i]) - 3) :
              /\ SubSeq(statements[i], k, k + 2) \in {<<"'", "'", ";">>, <<"\"", "\"", ";">>}
              /\ statements[i][1] = statements[i][k]
              /\ statements[i][Len(statements[i])] = statements[i][k]

-----------------------------------------------------------------------------
(* Regular expressions of core/sql/parse-migration.ts.  A pattern is a      *)
(* sequence of elements; Match runs it from the start of the text with the   *)
(* preferences of a backtracking matcher (greedy and lazy repetition, the   *)
(* first alternative first) and gives the captured groups of the first      *)
(* match.  All patterns carry the i flag.                                   *)

K_alter == <<"a", "l", "t", "e", "r">>
K_table == <<"t", "a", "b", "l", "e">>
K_if == <<"i", "f">>
K_exists == <<"e", "x", "i", "s", "t", "s">>
K_only == <<"o", "n", "l", "y">>
K_create == <<"c", "r", "e", "a", "t", "e">>
K_not == <<"n", "o", "t">>
K_add == <<"a", "d", "d">>
K_column == <<"c", "o", "l", "u", "m", "n">>
K_type == <<"t", "y", "p", "e">>
K_set == <<"s", "e", "t">>
K_null == <<"n", "u", "l", "l">>
K_drop == <<"d", "r", "o", "p">>
K_default == <<"d", "e", "f", "a", "u", "l", "t">>
K_constraint == <<"c", "o", "n", "s", "t", "r", "a", "i", "n", "t">>
K_primary == <<"p", "r", "i", "m", "a", "r", "y">>
K_key == <<"k", "e", "y">>
K_unique == <<"u", "n", "i", "q", "u", "e">>
K_cascade == <<"c", "a", "s", "c", "a", "d", "e">>
K_using == <<"u", "s", "i", "n", "g">>
K_references == <<"r", "e", "f", "e", "r", "e", "n", "c", "e", "s">>
K_check == <<"c", "h", "e", "c", "k">>

\* a word, compared without case
Lit(w) == [t |-> "lit", w |-> w]
\* <cls>{min,}, greedy or lazy; cls: "space" \s, "nonspace" [^\s], "dot" . , "any" . with the s flag
Rep(cls, min, lazy) == [t |-> "rep", cls |-> cls, min |-> min, lazy |-> lazy]
\* (?: g )?
Opt(g) == [t |-> "opt", g |-> g]
\* (?: g1 | g2 )
Alt(g1, g2) == [t |-> "alt", g1 |-> g1, g2 |-> g2]
\* the parentheses of a capturing group
Open == [t |-> "open"]
Close == [t |-> "close"]
\* $
End == [t |-> "end"]
\* \s+ and \s*
S1 == Rep("space", 1, FALSE)
S0 == Rep("space", 0, FALSE)
\* ( g )
Group(g) == <<Open>> \o g \o <<Close>>

\* w1\s+w2\s+...wn
RECURSIVE Words(_)
Words(ws) ==
    IF Len(ws) = 1 THEN <<Lit(ws[1])>> ELSE <<Lit(ws[1]), S1>> \o Words(Tail(ws))

InClass(cls, c) ==
    CASE cls = "space" -> IsSpace(c)
      [] cls = "nonspace" -> ~IsSpace(c)
      [] cls = "dot" -> c # "\n"
      [] cls = "any" -> TRUE

\* the length of the longest run of cls characters of s from pos
RunLength(cls, s, pos) ==
    IF pos > Len(s) THEN 0
    ELSE CHOOSE n \in 0..(Len(s) - pos + 1) :
            /\ \A k \in pos..(pos + n - 1) : InClass(cls, s[k])
            /\ pos + n <= Len(s) => ~InClass(cls, s[pos + n])

NoMatch == [ok |-> FALSE, caps |-> <<>>]

RECURSIVE MatchFrom(_, _, _, _, _)
RECURSIVE TryRep(_, _, _, _, _, _, _)

\* the repetition e taken n times, then the rest; on failure the next n in e's preference
TryRep(e, rest, s, pos, caps, opened, n) ==
    IF n < e.min \/ n > RunLength(e.cls, s, pos) THEN NoMatch
    ELSE With(MatchFrom(rest, s, pos + n, caps, opened), LAMBDA r :
             IF r.ok THEN r
             ELSE TryRep(e, rest, s, pos, caps, opened, IF e.lazy THEN n + 1 ELSE n - 1))

\* the first element of re is of kind t
StartsWithA(re, t) == re # <<>> /\ Head(re).t = t

\* the word w, in either case, is at pos of s
WordAt(w, s, pos) ==
    pos + Len(w) - 1 <= Len(s) /\ ToLowerCase(SubSeq(s, pos, pos + Len(w) - 1)) = w

\* the pattern re matched against s from pos; caps: the groups closed so far, opened: the
\* start positions of the groups open
MatchFrom(re, s, pos, caps, opened) ==
    CASE re = <<>> -> [ok |-> TRUE, caps |-> caps]
      [] StartsWithA(re, "lit") /\ WordAt(Head(re).w, s, pos) ->
            MatchFrom(Tail(re), s, pos + Len(Head(re).w), caps, opened)
      [] StartsWithA(re, "end") /\ pos = Len(s) + 1 ->
            MatchFrom(Tail(re), s, pos, caps, opened)
      [] StartsWithA(re, "open") ->
            MatchFrom(Tail(re), s, pos, caps, Append(opened, pos))
      [] StartsWithA(re, "close") ->
            MatchFrom(Tail(re), s, pos,
                      Append(caps, SubSeq(s, opened[Len(opened)], pos - 1)),
                      SubSeq(opened, 1, Len(opened) - 1))
      [] StartsWithA(re, "opt") ->
            With(MatchFrom(Head(re).g \o Tail(re), s, pos, caps, opened), LAMBDA taken :
                IF taken.ok THEN taken ELSE MatchFrom(Tail(re), s, pos, caps, opened))
      [] StartsWithA(re, "alt") ->
            With(MatchFrom(Head(re).g1 \o Tail(re), s, pos, caps, opened), LAMBDA first :
                IF first.ok THEN first
                ELSE MatchFrom(Head(re).g2 \o Tail(re), s, pos, caps, opened))
      [] StartsWithA(re, "rep") ->
            TryRep(Head(re), Tail(re), s, pos, caps, opened,
                   IF Head(re).lazy THEN Head(re).min ELSE RunLength(Head(re).cls, s, pos))
      [] OTHER -> NoMatch

\* s.match(/^re/): the match of a pattern anchored at the start
Match(re, s) == MatchFrom(re, s, 1, <<>>, <<>>)

\* /^alter\s+table\s+(?:if\s+exists\s+)?(?:only\s+)?(.+)$/i
RE_AlterPrefix ==
    Words(<<K_alter, K_table>>)
        \o <<S1, Opt(Words(<<K_if, K_exists>>) \o <<S1>>), Opt(<<Lit(K_only), S1>>)>>
        \o Group(<<Rep("dot", 1, FALSE)>>) \o <<End>>

\* /^create\s+table\s+(?:if\s+not\s+exists\s+)?(.+?)\s*\((.*)\)$/is
RE_CreateTable ==
    Words(<<K_create, K_table>>)
        \o <<S1, Opt(Words(<<K_if, K_not, K_exists>>) \o <<S1>>)>>
        \o Group(<<Rep("any", 1, TRUE)>>) \o <<S0, Lit(<<"(">>)>>
        \o Group(<<Rep("any", 0, FALSE)>>) \o <<Lit(<<")">>), End>>

\* (primary\s+key|unique)\s*\((.+)\)$
RE_KeyColumns ==
    Group(<<Alt(Words(<<K_primary, K_key>>), <<Lit(K_unique)>>)>>)
        \o <<S0, Lit(<<"(">>)>> \o Group(<<Rep("dot", 1, FALSE)>>) \o <<Lit(<<")">>), End>>

\* /^constraint\s+([^\s]+)\s+(primary\s+key|unique)\s*\((.+)\)$/i
RE_TableConstraint ==
    <<Lit(K_constraint), S1>> \o Group(<<Rep("nonspace", 1, FALSE)>>) \o <<S1>> \o RE_KeyColumns

\* /^primary\s+key\s*\((.+)\)$/i
RE_BarePrimaryKey ==
    Words(<<K_primary, K_key>>) \o <<S0, Lit(<<"(">>)>>
        \o Group(<<Rep("dot", 1, FALSE)>>) \o <<Lit(<<")">>), End>>

\* /^unique\s*\((.+)\)$/i
RE_BareUnique ==
    <<Lit(K_unique), S0, Lit(<<"(">>)>>
        \o Group(<<Rep("dot", 1, FALSE)>>) \o <<Lit(<<")">>), End>>

\* /^add\s+column\s+(?:if\s+not\s+exists\s+)?(.+)$/i
RE_AddColumn ==
    Words(<<K_add, K_column>>)
        \o <<S1, Opt(Words(<<K_if, K_not, K_exists>>) \o <<S1>>)>>
        \o Group(<<Rep("dot", 1, FALSE)>>) \o <<End>>

\* alter\s+column\s+([^\s]+)\s+
RE_AlterColumn ==
    Words(<<K_alter, K_column>>) \o <<S1>> \o Group(<<Rep("nonspace", 1, FALSE)>>) \o <<S1>>

\* /^alter\s+column\s+([^\s]+)\s+type\s+(.+)$/i
RE_AlterColumnType ==
    RE_AlterColumn \o <<Lit(K_type), S1>> \o Group(<<Rep("dot", 1, FALSE)>>) \o <<End>>

\* /\s+using\s+[\s\S]*$/i, tried at one position
RE_Using == <<S1, Lit(K_using), S1, Rep("any", 0, FALSE), End>>

\* /^alter\s+column\s+([^\s]+)\s+set\s+not\s+null$/i
RE_SetNotNull == RE_AlterColumn \o Words(<<K_set, K_not, K_null>>) \o <<End>>

\* /^alter\s+column\s+([^\s]+)\s+drop\s+not\s+null$/i
RE_DropNotNull == RE_AlterColumn \o Words(<<K_drop, K_not, K_null>>) \o <<End>>

\* /^alter\s+column\s+([^\s]+)\s+set\s+default\s+(.+)$/i
RE_SetDefault ==
    RE_AlterColumn \o Words(<<K_set, K_default>>) \o <<S1>>
        \o Group(<<Rep("dot", 1, FALSE)>>) \o <<End>>

\* /^alter\s+column\s+([^\s]+)\s+drop\s+default$/i
RE_DropDefault == RE_AlterColumn \o Words(<<K_drop, K_default>>) \o <<End>>

\* /^add\s+constraint\s+([^\s]+)\s+(primary\s+key|unique)\s*\((.+)\)$/i
RE_AddConstraint ==
    Words(<<K_add, K_constraint>>) \o <<S1>> \o Group(<<Rep("nonspace", 1, FALSE)>>)
        \o <<S1>> \o RE_KeyColumns

\* ([^\s]+)(?:\s+cascade)?$
RE_NameCascade ==
    Group(<<Rep("nonspace", 1, FALSE)>>) \o <<Opt(<<S1, Lit(K_cascade)>>), End>>

\* /^drop\s+constraint\s+(?:if\s+exists\s+)?([^\s]+)(?:\s+cascade)?$/i
RE_DropConstraint ==
    Words(<<K_drop, K_constraint>>) \o <<S1, Opt(Words(<<K_if, K_exists>>) \o <<S1>>)>>
        \o RE_NameCascade

\* /^drop\s+column\s+(?:if\s+exists\s+)?([^\s]+)(?:\s+cascade)?$/i
RE_DropColumn ==
    Words(<<K_drop, K_column>>) \o <<S1, Opt(Words(<<K_if, K_exists>>) \o <<S1>>)>>
        \o RE_NameCascade

\* /^drop\s+table\s+(?:if\s+exists\s+)?([^\s]+)(?:\s+cascade)?$/i
RE_DropTable ==
    Words(<<K_drop, K_table>>) \o <<S1, Opt(Words(<<K_if, K_exists>>) \o <<S1>>)>>
        \o RE_NameCascade

-----------------------------------------------------------------------------
(* The migration parser, core/sql/parse-migration.ts *)

\* the statements of one migration text
MaxStmts == 2

\* s.includes(t)
Contains(s, t) == \E i \in 1..(Len(s) - Len(t) + 1) : SubSeq(s, i, i + Len(t) - 1) = t

COLUMN_CONSTRAINT_KEYWORDS ==
    {K_primary, K_unique, K_not, K_null, K_default, K_constraint, K_references, K_check}

\* normalizeSqlType
NormalizeSqlType(type) ==
    With(CollapseSpaces(ToLowerCase(Trim(type))), LAMBDA spaced :
    With(StripAround(spaced, "("), LAMBDA opened :
    With(StripAround(opened, ","), LAMBDA listed : StripAround(listed, ")"))))

\* replace(/""/g, '"')
RECURSIVE UnescapeQuotes(_)
UnescapeQuotes(s) ==
    IF s = <<>> THEN <<>>
    ELSE IF Len(s) >= 2 /\ s[1] = "\"" /\ s[2] = "\""
         THEN <<"\"">> \o UnescapeQuotes(SubSeq(s, 3, Len(s)))
         ELSE <<Head(s)>> \o UnescapeQuotes(Tail(s))

UnquoteIdentifier(value) ==
    With(Trim(value), LAMBDA trimmed :
        IF Len(trimmed) >= 2 /\ trimmed[1] = "\"" /\ trimmed[Len(trimmed)] = "\""
        THEN UnescapeQuotes(SubSeq(trimmed, 2, Len(trimmed) - 1))
        ELSE trimmed)

\* s.split('.')
RECURSIVE SplitOnDot(_, _)
SplitOnDot(s, part) ==
    IF s = <<>> THEN <<part>>
    ELSE IF Head(s) = "." THEN <<part>> \o SplitOnDot(Tail(s), <<>>)
    ELSE SplitOnDot(Tail(s), Append(part, Head(s)))

NormalizeIdentifier(identifier) ==
    With(Trim(identifier), LAMBDA trimmed :
    With(SplitOnDot(trimmed, <<>>), LAMBDA split :
    With([i \in 1..Len(split) |-> UnquoteIdentifier(split[i])], LAMBDA unquoted :
    With(SelectSeq(unquoted, LAMBDA part : Len(part) > 0), LAMBDA parts :
        ToLowerCase(IF Len(parts) > 0 THEN parts[Len(parts)] ELSE trimmed)))))

\* A while loop from the locals st, run for at most n passes: Done is the negation of the
\* loop's condition and Pass one execution of its body.  A loop over the characters of a
\* text that advances its cursor in every pass is done within as many passes as the text
\* has characters.
RECURSIVE Passes(_, _, _, _)
Passes(Pass(_), Done(_), st, n) ==
    IF n = 0 \/ Done(st) THEN st
    ELSE IF n = 1 THEN Pass(st)
    ELSE With(Passes(Pass, Done, st, n \div 2), LAMBDA half :
             IF Done(half) THEN half ELSE Passes(Pass, Done, half, n - (n \div 2)))

\* one pass of the loop of removeSqlComments at position i: the locals after it
RemoveCommentsStep(s, i, result, sq, dq, lc, bc) ==
    LET c == s[i]
        nx == IF i + 1 <= Len(s) THEN s[i + 1] ELSE ""
        to(n, r, q1, q2, l, b) == [i |-> i + n, result |-> r, sq |-> q1, dq |-> q2, lc |-> l, bc |-> b]
    IN  IF lc THEN
            IF c = "\n" THEN to(1, Append(result, c), sq, dq, FALSE, bc)
            ELSE to(1, result, sq, dq, lc, bc)
        ELSE IF bc THEN
            IF c = "*" /\ nx = "/" THEN to(2, result, sq, dq, lc, FALSE)
            ELSE to(1, result, sq, dq, lc, bc)
        ELSE IF ~sq /\ ~dq /\ c = "-" /\ nx = "-" THEN to(2, result, sq, dq, TRUE, bc)
        ELSE IF ~sq /\ ~dq /\ c = "/" /\ nx = "*" THEN to(2, result, sq, dq, lc, TRUE)
        ELSE IF c = "'" /\ ~dq THEN
            IF sq /\ nx = "'" THEN to(2, result \o <<"'", "'">>, sq, dq, lc, bc)
            ELSE to(1, Append(result, c), ~sq, dq, lc, bc)
        ELSE IF c = "\"" /\ ~sq THEN
            IF dq /\ nx = "\"" THEN to(2, result \o <<"\"", "\"">>, sq, dq, lc, bc)
            ELSE to(1, Append(result, c), sq, ~dq, lc, bc)
        ELSE to(1, Append(result, c), sq, dq, lc, bc)

\* removeSqlComments, from the locals st of its loop; the result is trimmed by the caller
RemoveCommentsFrom(s, st) ==
    Passes(LAMBDA t : RemoveCommentsStep(s, t.i, t.result, t.sq, t.dq, t.lc, t.bc),
           LAMBDA t : t.i > Len(s), st, Len(s)).result

RemoveSqlComments(statement) ==
    With(RemoveCommentsFrom(statement,
            [i |-> 1, result |-> <<>>, sq |-> FALSE, dq |-> FALSE, lc |-> FALSE, bc |-> FALSE]),
         LAMBDA result : Trim(result))

\* depth after the character c read outside quotes
DepthAfter(depth, c) ==
    IF c = "(" THEN depth + 1
    ELSE IF c = ")" THEN (IF depth > 0 THEN depth - 1 ELSE 0)
    ELSE depth

\* a part of splitTopLevelComma: pushed trimmed when it is not empty
PushPart(parts, text) ==
    With(Trim(text), LAMBDA part : IF Len(part) > 0 THEN Append(parts, part) ELSE parts)

\* one pass of the loop of splitTopLevelComma at position i: the locals after it
SplitCommaStep(s, i, cur, parts, sq, dq, depth) ==
    LET c == s[i]
        nx == IF i + 1 <= Len(s) THEN s[i + 1] ELSE ""
        to(n, t, ps, q1, q2, d) == [i |-> i + n, cur |-> t, parts |-> ps, sq |-> q1, dq |-> q2, depth |-> d]
    IN  IF c = "'" /\ ~dq THEN
            IF sq /\ nx = "'" THEN to(2, cur \o <<c, nx>>, parts, sq, dq, depth)
            ELSE to(1, Append(cur, c), parts, ~sq, dq, depth)
        ELSE IF c = "\"" /\ ~sq THEN
            IF dq /\ nx = "\"" THEN to(2, cur \o <<c, nx>>, parts, sq, dq, depth)
            ELSE to(1, Append(cur, c), parts, sq, ~dq, depth)
        ELSE IF ~sq /\ ~dq /\ c = "," /\ depth = 0 THEN
            to(1, <<>>, PushPart(parts, cur), sq, dq, depth)
        ELSE to(1, Append(cur, c), parts, sq, dq,
                IF ~sq /\ ~dq THEN DepthAfter(depth, c) ELSE depth)

\* splitTopLevelComma, from the locals st of its loop
SplitCommaFrom(s, st) ==
    With(Passes(LAMBDA t : SplitCommaStep(s, t.i, t.cur, t.parts, t.sq, t.dq, t.depth),
                LAMBDA t : t.i > Len(s), st, Len(s)),
         LAMBDA end : PushPart(end.parts, end.cur))

SplitTopLevelComma(input) == SplitCommaFrom(input,
        [i |-> 1, cur |-> <<>>, parts |-> <<>>, sq |-> FALSE, dq |-> FALSE, depth |-> 0])

\* a token of tokenize: pushed when it is not empty
PushToken(tokens, text) == IF Len(text) > 0 THEN Append(tokens, text) ELSE tokens

\* one pass of the loop of tokenize at position i: the locals after it
TokenizeStep(s, i, cur, tokens, sq, dq, depth) ==
    LET c == s[i]
        nx == IF i + 1 <= Len(s) THEN s[i + 1] ELSE ""
        d == IF ~sq /\ ~dq THEN DepthAfter(depth, c) ELSE depth
        to(n, t, ts, q1, q2, dd) == [i |-> i + n, cur |-> t, tokens |-> ts, sq |-> q1, dq |-> q2, depth |-> dd]
    IN  IF c = "'" /\ ~dq THEN
            IF sq /\ nx = "'" THEN to(2, cur \o <<c, nx>>, tokens, sq, dq, depth)
            ELSE to(1, Append(cur, c), tokens, ~sq, dq, depth)
        ELSE IF c = "\"" /\ ~sq THEN
            IF dq /\ nx = "\"" THEN to(2, cur \o <<c, nx>>, tokens, sq, dq, depth)
            ELSE to(1, Append(cur, c), tokens, sq, ~dq, depth)
        ELSE IF ~sq /\ ~dq /\ IsSpace(c) /\ d = 0 THEN
            to(1, <<>>, PushToken(tokens, cur), sq, dq, d)
        ELSE to(1, Append(cur, c), tokens, sq, dq, d)

\* tokenize, from the locals st of its loop
TokenizeFrom(s, st) ==
    With(Passes(LAMBDA t : TokenizeStep(s, t.i, t.cur, t.tokens, t.sq, t.dq, t.depth),
                LAMBDA t : t.i > Len(s), st, Len(s)),
         LAMBDA end : PushToken(end.tokens, end.cur))

Tokenize(segment) == TokenizeFrom(segment,
        [i |-> 1, cur |-> <<>>, tokens |-> <<>>, sq |-> FALSE, dq |-> FALSE, depth |-> 0])

\* tokens.join(' ')
RECURSIVE JoinTokens(_)
JoinTokens(tokens) ==
    IF tokens = <<>> THEN <<>>
    ELSE IF Len(tokens) = 1 THEN tokens[1]
    ELSE tokens[1] \o <<" ">> \o JoinTokens(Tail(tokens))

\* tokens[i]?.toLowerCase() === word
TokenIs(tokens, i, word) == i <= Len(tokens) /\ ToLowerCase(tokens[i]) = word

\* the first loop of parseColumnDefinition: where the type tokens end
RECURSIVE TypeEnd(_, _)
TypeEnd(tokens, cursor) ==
    IF cursor <= Len(tokens) /\ ToLowerCase(tokens[cursor]) \notin COLUMN_CONSTRAINT_KEYWORDS
    THEN TypeEnd(tokens, cursor + 1)
    ELSE cursor

\* the loop inside the default branch: where the default expression's tokens end
RECURSIVE DefaultEnd(_, _)
DefaultEnd(tokens, cursor) ==
    IF cursor > Len(tokens) THEN cursor
    ELSE IF \/ TokenIs(tokens, cursor, K_constraint)
            \/ TokenIs(tokens, cursor, K_references)
            \/ TokenIs(tokens, cursor, K_check)
            \/ (TokenIs(tokens, cursor, K_not) /\ TokenIs(tokens, cursor + 1, K_null))
            \/ TokenIs(tokens, cursor, K_null)
            \/ TokenIs(tokens, cursor, K_unique)
            \/ (TokenIs(tokens, cursor, K_primary) /\ TokenIs(tokens, cursor + 1, K_key))
         THEN cursor
         ELSE DefaultEnd(tokens, cursor + 1)

\* the second loop of parseColumnDefinition.  The record carries the column's name, type
\* and flags (unique, primaryKey: FALSE when the source leaves them unset); the text of
\* the default is carried as its tokens joined, before normalizeDefault.
RECURSIVE ColumnConstraints(_, _, _)
ColumnConstraints(tokens, cursor, parsed) ==
    IF cursor > Len(tokens) THEN parsed
    ELSE IF TokenIs(tokens, cursor, K_primary) /\ TokenIs(tokens, cursor + 1, K_key) THEN
        ColumnConstraints(tokens, cursor + 2,
                          [parsed EXCEPT !.primaryKey = TRUE, !.nullable = FALSE])
    ELSE IF TokenIs(tokens, cursor, K_unique) THEN
        ColumnConstraints(tokens, cursor + 1, [parsed EXCEPT !.unique = TRUE])
    ELSE IF TokenIs(tokens, cursor, K_not) /\ TokenIs(tokens, cursor + 1, K_null) THEN
        ColumnConstraints(tokens, cursor + 2, [parsed EXCEPT !.nullable = FALSE])
    ELSE IF TokenIs(tokens, cursor, K_null) THEN
        ColumnConstraints(tokens, cursor + 1, [parsed EXCEPT !.nullable = TRUE])
    ELSE IF TokenIs(tokens, cursor, K_default) THEN
        With(DefaultEnd(tokens, cursor + 1), LAMBDA end :
            ColumnConstraints(tokens, end,
                              [parsed EXCEPT !.defaultTokens =
                                  <<JoinTokens(SubSeq(tokens, cursor + 1, end - 1))>>]))
    ELSE ColumnConstraints(tokens, cursor + 1, parsed)

\* parseColumnDefinition: <<>> for null, <<column>> otherwise
ParseColumnDefinition(segment) ==
    With(Tokenize(segment), LAMBDA tokens :
        IF Len(tokens) < 2 THEN <<>>
        ELSE With(TypeEnd(tokens, 2), LAMBDA cursor :
            IF cursor = 2 THEN <<>>
            ELSE With(JoinTokens(SubSeq(tokens, 2, cursor - 1)), LAMBDA typeText :
                 With([name |-> NormalizeIdentifier(tokens[1]),
                       type |-> NormalizeSqlType(typeText),
                       nullable |-> TRUE, unique |-> FALSE, primaryKey |-> FALSE,
                       defaultTokens |-> <<>>], LAMBDA parsed :
                     <<ColumnConstraints(tokens, cursor, parsed)>>))))

\* splitTopLevelComma(raw).map(item => normalizeIdentifier(item))
ColumnList(raw) ==
    With(SplitTopLevelComma(raw), LAMBDA items :
        [i \in 1..Len(items) |-> NormalizeIdentifier(items[i])])

\* kind.toLowerCase().includes('primary'): kind is a match of (primary\s+key|unique)
ConstraintType(kind) ==
    IF Contains(ToLowerCase(kind), K_primary) THEN "PRIMARY_KEY" ELSE "UNIQUE"

\* parseCreateTableConstraint: <<>> for null, <<constraint>> otherwise; name <<>> when absent
ParseCreateTableConstraint(segment) ==
    With(Trim(segment), LAMBDA trimmed :
    With(CollapseSpaces(trimmed), LAMBDA normalized :
    With(Match(RE_TableConstraint, normalized), LAMBDA named :
        IF named.ok
        THEN <<[type |-> ConstraintType(named.caps[2]),
                name |-> <<NormalizeIdentifier(named.caps[1])>>,
                columns |-> ColumnList(named.caps[3])]>>
        ELSE With(Match(RE_BarePrimaryKey, normalized), LAMBDA barePk :
            IF barePk.ok
            THEN <<[type |-> "PRIMARY_KEY", name |-> <<>>,
                    columns |-> ColumnList(barePk.caps[1])]>>
            ELSE With(Match(RE_BareUnique, normalized), LAMBDA bareUnique :
                IF bareUnique.ok
                THEN <<[type |-> "UNIQUE", name |-> <<>>,
                        columns |-> ColumnList(bareUnique.caps[1])]>>
                ELSE <<>>)))))

\* a parser's null
NoOp == [kind |-> Null]

\* parseAlterTablePrefix: <<>> for null, <<[table, rest]>> otherwise
ParseAlterTablePrefix(stmt) ==
    With(Match(RE_AlterPrefix, stmt), LAMBDA match :
        IF ~match.ok THEN <<>>
        ELSE With(Trim(match.caps[1]), LAMBDA remainder :
             With(Tokenize(remainder), LAMBDA tokens :
                IF Len(tokens) < 2 THEN <<>>
                ELSE With(SubSeq(remainder, Len(tokens[1]) + 1, Len(remainder)), LAMBDA after :
                    <<[table |-> NormalizeIdentifier(tokens[1]), rest |-> Trim(after)]>>))))

\* the segments of a CREATE TABLE body that are constraints, in order
TableConstraints(segments) ==
    FlatMap(LAMBDA segment : ParseCreateTableConstraint(segment), segments)

\* the segments of a CREATE TABLE body that are not constraints and parse as columns
TableColumns(segments) ==
    FlatMap(LAMBDA segment :
                With(ParseCreateTableConstraint(segment), LAMBDA constraint :
                    IF constraint # <<>> THEN <<>> ELSE ParseColumnDefinition(segment)),
            segments)

ParseCreateTable(stmt) ==
    With(Match(RE_CreateTable, stmt), LAMBDA match :
        IF ~match.ok THEN NoOp
        ELSE With(SplitTopLevelComma(match.caps[2]), LAMBDA segments :
            [kind |-> "CREATE_TABLE",
             table |-> NormalizeIdentifier(match.caps[1]),
             columns |-> TableColumns(segments),
             constraints |-> TableConstraints(segments)]))

ParseAlterTableAddColumn(stmt) ==
    With(ParseAlterTablePrefix(stmt), LAMBDA prefix :
        IF prefix = <<>> THEN NoOp
        ELSE With(Match(RE_AddColumn, prefix[1].rest), LAMBDA match :
            IF ~match.ok THEN NoOp
            ELSE With(ParseColumnDefinition(match.caps[1]), LAMBDA column :
                IF column = <<>> THEN NoOp
                ELSE [kind |-> "ADD_COLUMN", table |-> prefix[1].table,
                      column |-> column[1]])))

\* replace(/\s+using\s+[\s\S]*$/i, ''): cut at the leftmost match
RECURSIVE CutUsingFrom(_, _)
CutUsingFrom(s, i) ==
    IF i > Len(s) THEN s
    ELSE IF MatchFrom(RE_Using, s, i, <<>>, <<>>).ok THEN SubSeq(s, 1, i - 1)
    ELSE CutUsingFrom(s, i + 1)

ParseAlterColumnType(stmt) ==
    With(ParseAlterTablePrefix(stmt), LAMBDA prefix :
        IF prefix = <<>> THEN NoOp
        ELSE With(Match(RE_AlterColumnType, prefix[1].rest), LAMBDA match :
            IF ~match.ok THEN NoOp
            ELSE With(CutUsingFrom(match.caps[2], 1), LAMBDA cut :
                 With(Trim(cut), LAMBDA typeText :
                    [kind |-> "ALTER_COLUMN_TYPE", table |-> prefix[1].table,
                     column |-> NormalizeIdentifier(match.caps[1]),
                     toType |-> NormalizeSqlType(typeText)]))))

ParseSetDropNotNull(stmt) ==
    With(ParseAlterTablePrefix(stmt), LAMBDA prefix :
        IF prefix = <<>> THEN NoOp
        ELSE With(Match(RE_SetNotNull, prefix[1].rest), LAMBDA setMatch :
            IF setMatch.ok
            THEN [kind |-> "SET_NOT_NULL", table |-> prefix[1].table,
                  column |-> NormalizeIdentifier(setMatch.caps[1])]
            ELSE With(Match(RE_DropNotNull, prefix[1].rest), LAMBDA dropMatch :
                IF dropMatch.ok
                THEN [kind |-> "DROP_NOT_NULL", table |-> prefix[1].table,
                      column |-> NormalizeIdentifier(dropMatch.caps[1])]
                ELSE NoOp)))

\* the SET DEFAULT operation carries the expression as written and trimmed, rawExpr, from
\* which the source derives expr with normalizeDefault
ParseSetDropDefault(stmt) ==
    With(ParseAlterTablePrefix(stmt), LAMBDA prefix :
        IF prefix = <<>> THEN NoOp
        ELSE With(Match(RE_SetDefault, prefix[1].rest), LAMBDA setMatch :
            IF setMatch.ok
            THEN [kind |-> "SET_DEFAULT", table |-> prefix[1].table,
                  column |-> NormalizeIdentifier(setMatch.caps[1]),
                  rawExpr |-> Trim(setMatch.caps[2])]
            ELSE With(Match(RE_DropDefault, prefix[1].rest), LAMBDA dropMatch :
                IF dropMatch.ok
                THEN [kind |-> "DROP_DEFAULT", table |-> prefix[1].table,
                      column |-> NormalizeIdentifier(dropMatch.caps[1])]
                ELSE NoOp)))

ParseAddDropConstraint(stmt) ==
    With(ParseAlterTablePrefix(stmt), LAMBDA prefix :
        IF prefix = <<>> THEN NoOp
        ELSE With(Match(RE_AddConstraint, prefix[1].rest), LAMBDA addMatch :
            IF addMatch.ok
            THEN [kind |-> "ADD_CONSTRAINT", table |-> prefix[1].table,
                  constraint |-> [type |-> ConstraintType(addMatch.caps[2]),
                                  name |-> <<NormalizeIdentifier(addMatch.caps[1])>>,
                                  columns |-> ColumnList(addMatch.caps[3])]]
            ELSE With(Match(RE_DropConstraint, prefix[1].rest), LAMBDA dropMatch :
                IF dropMatch.ok
                THEN [kind |-> "DROP_CONSTRAINT", table |-> prefix[1].table,
                      name |-> NormalizeIdentifier(dropMatch.caps[1])]
                ELSE NoOp)))

ParseDropColumn(stmt) ==
    With(ParseAlterTablePrefix(stmt), LAMBDA prefix :
        IF prefix = <<>> THEN NoOp
        ELSE With(Match(RE_DropColumn, prefix[1].rest), LAMBDA match :
            IF ~match.ok THEN NoOp
            ELSE [kind |-> "DROP_COLUMN", table |-> prefix[1].table,
                  column |-> NormalizeIdentifier(match.caps[1])]))

ParseDropTable(stmt) ==
    With(Match(RE_DropTable, stmt), LAMBDA match :
        IF ~match.ok THEN NoOp
        ELSE [kind |-> "DROP_TABLE", table |-> NormalizeIdentifier(match.caps[1])])

\* PARSERS[n](stmt), n from 1
PARSERS(n, stmt) ==
    CASE n = 1 -> ParseCreateTable(stmt)
      [] n = 2 -> ParseAlterTableAddColumn(stmt)
      [] n = 3 -> ParseAlterColumnType(stmt)
      [] n = 4 -> ParseSetDropNotNull(stmt)
      [] n = 5 -> ParseSetDropDefault(stmt)
      [] n = 6 -> ParseAddDropConstraint(stmt)
      [] n = 7 -> ParseDropColumn(stmt)
      [] n = 8 -> ParseDropTable(stmt)

\* PARSERS.length
ParserCount == 8

\* for (const parser of PARSERS) { parsed = parser(stmt); if (parsed) break }, from the
\* n-th parser
RECURSIVE FirstParsedFrom(_, _)
FirstParsedFrom(n, stmt) ==
    IF n > ParserCount THEN NoOp
    ELSE With(PARSERS(n, stmt), LAMBDA parsed :
            IF parsed # NoOp THEN parsed ELSE FirstParsedFrom(n + 1, stmt))

\* the inner loop of parseMigrationSql: the first parser's result that is not null
FirstParsed(stmt) == FirstParsedFrom(1, stmt)

\* reason: 'Unsupported or unrecognized statement'
UnsupportedReason ==
    <<"U", "n", "s", "u", "p", "p", "o", "r", "t", "e", "d", " ", "o", "r", " ", "u", "n",
      "r", "e", "c", "o", "g", "n", "i", "z", "e", "d", " ", "s", "t", "a", "t", "e", "m",
      "e", "n", "t">>

\* a variant for comparison: an unrecognised statement is dropped without a warning
PushResultWithoutWarning(result, stmt, parsed) ==
    IF parsed # NoOp
    THEN [ops |-> Append(result.ops, parsed), warnings |-> result.warnings]
    ELSE result

\* if (parsed) ops.push(parsed) else warnings.push({statement: stmt, reason})
PushResult(result, stmt, parsed) ==
    IF parsed # NoOp
    THEN [ops |-> Append(result.ops, parsed), warnings |-> result.warnings]
    ELSE [ops |-> result.ops,
          warnings |-> Append(result.warnings,
                              [statement |-> stmt, reason |-> UnsupportedReason])]

\* the loop of parseMigrationSql runs over the statements the splitter returned
Parsing == phase = "done" /\ position <= Len(statements)

\* stmt of the iteration at position
Stmt == With(RemoveSqlComments(statements[position]), LAMBDA bare : Trim(bare))

\* if (!stmt) continue
SkipEmptyStatement ==
    /\ Parsing
    /\ Stmt = <<>>
    /\ position' = position + 1
    /\ UNCHANGED <<ops, warnings, phase, splitVars, diffVars, replayVars, genVars, validateVars>>

\* one iteration of the loop for a statement that is not empty
ParseStatement ==
    /\ Parsing
    /\ \E stmt \in {Stmt} :
          /\ stmt # <<>>
          /\ \E result \in {PushResult([ops |-> ops, warnings |-> warnings], stmt,
                                       FirstParsed(stmt))} :
                /\ ops' = result.ops
                /\ warnings' = result.warnings
    /\ position' = position + 1
    /\ UNCHANGED <<phase, splitVars, diffVars, replayVars, genVars, validateVars>>

\* return { ops, warnings }
ReturnParseResult ==
    /\ phase = "done" /\ position > Len(statements)
    /\ phase' = "parsed"
    /\ UNCHANGED <<parseVars, replayVars, genVars, validateVars, splitVars, diffVars>>

\* CREATE TABLE t (x int, y text)
St_CreateTable ==
    <<"C", "R", "E", "A", "T", "E", " ", "T", "A", "B", "L", "E", " ", "t", " ", "(", "x",
      " ", "i", "n", "t", ",", " ", "y", " ", "t", "e", "x", "t", ")">>

\* ALTER TABLE t ADD COLUMN y text
St_AddColumn ==
    <<"A", "L", "T", "E", "R", " ", "T", "A", "B", "L", "E", " ", "t", " ", "A", "D", "D",
      " ", "C", "O", "L", "U", "M", "N", " ", "y", " ", "t", "e", "x", "t">>

\* ALTER TABLE t ALTER COLUMN x TYPE bigint
St_AlterType ==
    <<"A", "L", "T", "E", "R", " ", "T", "A", "B", "L", "E", " ", "t", " ", "A", "L", "T",
      "E", "R", " ", "C", "O", "L", "U", "M", "N", " ", "x", " ", "T", "Y", "P", "E", " ",
      "b", "i", "g", "i", "n", "t">>

\* ALTER TABLE t ALTER COLUMN x SET NOT NULL
St_SetNotNull ==
    <<"A", "L", "T", "E", "R", " ", "T", "A", "B", "L", "E", " ", "t", " ", "A", "L", "T",
      "E", "R", " ", "C", "O", "L", "U", "M", "N", " ", "x", " ", "S", "E", "T", " ", "N",
      "O", "T", " ", "N", "U", "L", "L">>

\* alter table t alter column x drop not null
St_DropNotNull ==
    <<"a", "l", "t", "e", "r", " ", "t", "a", "b", "l", "e", " ", "t", " ", "a", "l", "t",
      "e", "r", " ", "c", "o", "l", "u", "m", "n", " ", "x", " ", "d", "r", "o", "p", " ",
      "n", "o", "t", " ", "n", "u", "l", "l">>

\* ALTER TABLE t ALTER COLUMN x SET DEFAULT 'a;b'
St_SetDefault ==
    <<"A", "L", "T", "E", "R", " ", "T", "A", "B", "L", "E", " ", "t", " ", "A", "L", "T",
      "E", "R", " ", "C", "O", "L", "U", "M", "N", " ", "x", " ", "S", "E", "T", " ", "D",
      "E", "F", "A", "U", "L", "T", " ", "'", "a", ";", "b", "'">>

\* ALTER TABLE t ALTER COLUMN x SET DEFAULT $$;$$
St_SetDefaultDollar ==
    <<"A", "L", "T", "E", "R", " ", "T", "A", "B", "L", "E", " ", "t", " ", "A", "L", "T",
      "E", "R", " ", "C", "O", "L", "U", "M", "N", " ", "x", " ", "S", "E", "T", " ", "D",
      "E", "F", "A", "U", "L", "T", " ", "$", "$", ";", "$", "$">>

\* ALTER TABLE t ALTER COLUMN x DROP DEFAULT
St_DropDefault ==
    <<"A", "L", "T", "E", "R", " ", "T", "A", "B", "L", "E", " ", "t", " ", "A", "L", "T",
      "E", "R", " ", "C", "O", "L", "U", "M", "N", " ", "x", " ", "D", "R", "O", "P", " ",
      "D", "E", "F", "A", "U", "L", "T">>

\* ALTER TABLE t ADD CONSTRAINT k UNIQUE (x)
St_AddConstraint ==
    <<"A", "L", "T", "E", "R", " ", "T", "A", "B", "L", "E", " ", "t", " ", "A", "D", "D",
      " ", "C", "O", "N", "S", "T", "R", "A", "I", "N", "T", " ", "k", " ", "U", "N", "I",
      "Q", "U", "E", " ", "(", "x", ")">>

\* ALTER TABLE t DROP CONSTRAINT k
St_DropConstraint ==
    <<"A", "L", "T", "E", "R", " ", "T", "A", "B", "L", "E", " ", "t", " ", "D", "R", "O",
      "P", " ", "C", "O", "N", "S", "T", "R", "A", "I", "N", "T", " ", "k">>

\* ALTER TABLE t DROP COLUMN x
St_DropColumn ==
    <<"A", "L", "T", "E", "R", " ", "T", "A", "B", "L", "E", " ", "t", " ", "D", "R", "O",
      "P", " ", "C", "O", "L", "U", "M", "N", " ", "x">>

\* -- old\nDROP TABLE "t"
St_DropTable ==
    <<"-", "-", " ", "o", "l", "d", "\n", "D", "R", "O", "P", " ", "T", "A", "B", "L", "E",
      " ", "\"", "t", "\"">>

\* CREATE INDEX i ON t(x)
St_CreateIndex ==
    <<"C", "R", "E", "A", "T", "E", " ", "I", "N", "D", "E", "X", " ", "i", " ", "O", "N",
      " ", "t", "(", "x", ")">>

\* /* n */
St_OnlyComment ==
    <<"/", "*", " ", "n", " ", "*", "/">>

\* ALTER TABLE t\nDROP COLUMN x
St_TwoLines ==
    <<"A", "L", "T", "E", "R", " ", "T", "A", "B", "L", "E", " ", "t", "\n", "D", "R", "O",
      "P", " ", "C", "O", "L", "U", "M", "N", " ", "x">>

\* ALTER TABLE t ADD COLUMN y
St_AddColumnNoType ==
    <<"A", "L", "T", "E", "R", " ", "T", "A", "B", "L", "E", " ", "t", " ", "A", "D", "D",
      " ", "C", "O", "L", "U", "M", "N", " ", "y">>

\* the statements a migration text is made of
StatementPool ==
    <<St_CreateTable, St_AddColumn, St_AlterType, St_SetNotNull,
      St_DropNotNull, St_SetDefault, St_SetDefaultDollar, St_DropDefault,
      St_AddConstraint, St_DropConstraint, St_DropColumn, St_DropTable,
      St_CreateIndex, St_OnlyComment, St_TwoLines, St_AddColumnNoType>>

\* what each statement of the pool is: the kind of its operation, "warning" for a
\* statement that is not supported, "skipped" for one that is empty without its comments
PoolOutcome ==
    <<"CREATE_TABLE", "ADD_COLUMN", "ALTER_COLUMN_TYPE", "SET_NOT_NULL",
      "DROP_NOT_NULL", "SET_DEFAULT", "SET_DEFAULT", "DROP_DEFAULT",
      "ADD_CONSTRAINT", "DROP_CONSTRAINT", "DROP_COLUMN", "DROP_TABLE",
      "warning", "skipped", "warning", "warning">>

\* the lists of at most MaxStmts indexes into the pool
PoolLists == UNION {[1..n -> 1..Len(StatementPool)] : n \in 1..MaxStmts}

\* the statements of a list, each followed by ';' and a line break
RECURSIVE MigrationText(_)
MigrationText(list) ==
    IF list = <<>> THEN <<>>
    ELSE StatementPool[Head(list)] \o <<";", "\n">> \o MigrationText(Tail(list))

InitParse ==
    /\ \E list \in PoolLists : sql = MigrationText(list)
    /\ SplitStart /\ ParseStart /\ ReplayIdle /\ GenIdle /\ ValidateIdle /\ DiffIdle
    /\ phase = "scan"

NextParse == NextSplit \/ SkipEmptyStatement \/ ParseStatement \/ ReturnParseResult

SpecParse == InitParse /\ [][NextParse]_vars

-----------------------------------------------------------------------------
(* C10: the partial-failure policy of the parser *)

\* Unsupported
Unsupported ==
    <<"U", "n", "s", "u", "p", "p", "o", "r", "t", "e", "d">>

\* ops grew by one operation and warnings did not change
OneOpAdded ==
    /\ Len(ops') = Len(ops) + 1
    /\ SubSeq(ops', 1, Len(ops)) = ops
    /\ ops'[Len(ops')] # NoOp
    /\ warnings' = warnings

\* warnings grew by one warning for stmt, its reason naming it unsupported, and ops did
\* not change
OneWarningAdded(stmt) ==
    /\ Len(warnings') = Len(warnings) + 1
    /\ SubSeq(warnings', 1, Len(warnings)) = warnings
    /\ warnings'[Len(warnings')].statement = stmt
    /\ Contains(warnings'[Len(warnings')].reason, Unsupported)
    /\ ops' = ops

\* an iteration of the loop: nothing for an empty statement, else one op or one warning
OneOpOrOneWarning ==
    (Parsing /\ position' = position + 1) =>
        IF RemoveSqlComments(statements[position]) = <<>>
        THEN ops' = ops /\ warnings' = warnings
        ELSE /\ OneOpAdded \/ OneWarningAdded(RemoveSqlComments(statements[position]))
             /\ ~(OneOpAdded /\ OneWarningAdded(RemoveSqlComments(statements[position])))

\* the statements that are not empty once their comments are removed
NonEmptyStatements ==
    {i \in 1..Len(statements) : RemoveSqlComments(statements[i]) # <<>>}

\* the outcomes of the statements of a list that are operations, in the list's order
ExpectedKinds(list) ==
    FlatMap(LAMBDA i : IF PoolOutcome[i] \in {"warning", "skipped"} THEN <<>>
                       ELSE <<PoolOutcome[i]>>, list)

\* the number of statements of a list that are not supported
ExpectedWarnings(list) ==
    Len(FlatMap(LAMBDA i : IF PoolOutcome[i] = "warning" THEN <<i>> ELSE <<>>, list))

\* C10: every statement that is not empty after comment stripping gives exactly one
\* operation or exactly one warning whose reason contains 'Unsupported', never both and
\* never neither; |ops| + |warnings| is the number of such statements; the operations are
\* in statement order; a statement that is not recognised does not stop the statements
\* after it from being parsed.
C10_PartialFailurePolicy ==
    /\ [][OneOpOrOneWarning]_vars
    /\ [](phase = "parsed" =>
            /\ Len(ops) + Len(warnings) = Cardinality(NonEmptyStatements)
            /\ \A list \in PoolLists :
                  sql = MigrationText(list) =>
                      /\ [i \in 1..Len(ops) |-> ops[i].kind] = ExpectedKinds(list)
                      /\ Len(warnings) = ExpectedWarnings(list))

\* a statement that is not supported, then a statement that is: one warning, one operation
C10_Witness ==
    /\ phase = "parsed"
    /\ Len(statements) = 2
    /\ Len(warnings) = 1
    /\ warnings[1].statement = statements[1]
    /\ Len(ops) = 1

-----------------------------------------------------------------------------
(* Default expressions: normalizeDefault, core/normalize.ts *)

K_now == <<"n", "o", "w">>
K_gen_random_uuid == <<"g", "e", "n", "_", "r", "a", "n", "d", "o", "m", "_", "u", "u", "i", "d">>

\* normalizeSpacesOutsideQuotes: the loop over the characters rest still to read
RECURSIVE SpacesOutsideQuotesFrom(_, _, _, _, _)
SpacesOutsideQuotesFrom(rest, result, sq, dq, pendingSpace) ==
    IF rest = <<>> THEN Trim(result)
    ELSE LET char == Head(rest)
             spaced == IF pendingSpace /\ result # <<>> /\ result[Len(result)] # " "
                       THEN Append(result, " ") ELSE result
         IN  IF char = "'" /\ ~dq
             THEN SpacesOutsideQuotesFrom(Tail(rest), Append(spaced, char), ~sq, dq, FALSE)
             ELSE IF char = "\"" /\ ~sq
             THEN SpacesOutsideQuotesFrom(Tail(rest), Append(spaced, char), sq, ~dq, FALSE)
             ELSE IF ~sq /\ ~dq /\ IsSpace(char)
             THEN SpacesOutsideQuotesFrom(Tail(rest), result, sq, dq, TRUE)
             ELSE SpacesOutsideQuotesFrom(Tail(rest), Append(spaced, char), sq, dq, FALSE)

NormalizeSpacesOutsideQuotes(value) ==
    SpacesOutsideQuotesFrom(value, <<>>, FALSE, FALSE, FALSE)

\* while (result.endsWith(' ')) result = result.slice(0, -1)
RECURSIVE WithoutTrailingSpaces(_)
WithoutTrailingSpaces(result) ==
    IF result # <<>> /\ result[Len(result)] = " "
    THEN WithoutTrailingSpaces(SubSeq(result, 1, Len(result) - 1))
    ELSE result

\* while (lookahead < value.length && value[lookahead] === ' ') lookahead++
RECURSIVE Lookahead(_, _)
Lookahead(value, lookahead) ==
    IF lookahead <= Len(value) /\ value[lookahead] = " "
    THEN Lookahead(value, lookahead + 1)
    ELSE lookahead

\* normalizePunctuationOutsideQuotes: the loop from index at (counted from 1)
RECURSIVE PunctuationOutsideQuotesFrom(_, _, _, _, _)
PunctuationOutsideQuotesFrom(value, at, result, sq, dq) ==
    IF at > Len(value) THEN result
    ELSE LET char == value[at]
         IN  IF char = "'" /\ ~dq
             THEN PunctuationOutsideQuotesFrom(value, at + 1, Append(result, char), ~sq, dq)
             ELSE IF char = "\"" /\ ~sq
             THEN PunctuationOutsideQuotesFrom(value, at + 1, Append(result, char), sq, ~dq)
             ELSE IF ~sq /\ ~dq /\ char \in {"(", ")"}
             THEN PunctuationOutsideQuotesFrom(value, Lookahead(value, at + 1),
                      Append(WithoutTrailingSpaces(result), char), sq, dq)
             ELSE IF ~sq /\ ~dq /\ char = ","
             THEN PunctuationOutsideQuotesFrom(value, Lookahead(value, at + 1),
                      WithoutTrailingSpaces(result) \o <<",", " ">>, sq, dq)
             ELSE PunctuationOutsideQuotesFrom(value, at + 1, Append(result, char), sq, dq)

NormalizePunctuationOutsideQuotes(value) ==
    PunctuationOutsideQuotesFrom(value, 1, <<>>, FALSE, FALSE)

\* \w
IsWordChar(c) == c \in Digits \/ c = "_" \/ \E i \in 1..26 : Upper[i] = c \/ Lower[i] = c

\* the length of the match of /\bname\s*\(\s*\)/i at position i of buffer, 0 when none
CallAt(buffer, i, name) ==
    IF ~(i = 1 \/ ~IsWordChar(buffer[i - 1])) \/ ~WordAt(name, buffer, i) THEN 0
    ELSE With(i + Len(name) + RunLength("space", buffer, i + Len(name)), LAMBDA open :
            IF open > Len(buffer) \/ buffer[open] # "(" THEN 0
            ELSE With(open + 1 + RunLength("space", buffer, open + 1), LAMBDA close :
                    IF close > Len(buffer) \/ buffer[close] # ")" THEN 0
                    ELSE close - i + 1))

\* buffer.replace(/\bname\s*\(\s*\)/gi, 'name()'), from position i
RECURSIVE ReplaceCallFrom(_, _, _)
ReplaceCallFrom(buffer, i, name) ==
    IF i > Len(buffer) THEN <<>>
    ELSE With(CallAt(buffer, i, name), LAMBDA n :
            IF n > 0 THEN name \o <<"(", ")">> \o ReplaceCallFrom(buffer, i + n, name)
            ELSE <<buffer[i]>> \o ReplaceCallFrom(buffer, i + 1, name))

\* what flushBuffer adds to result
FlushBuffer(buffer) ==
    With(ReplaceCallFrom(buffer, 1, K_now), LAMBDA replaced :
        ReplaceCallFrom(replaced, 1, K_gen_random_uuid))

\* normalizeKnownFunctionsOutsideQuotes: the loop over the characters rest still to read
RECURSIVE KnownFunctionsOutsideQuotesFrom(_, _, _, _, _)
KnownFunctionsOutsideQuotesFrom(rest, result, buffer, sq, dq) ==
    IF rest = <<>> THEN result \o FlushBuffer(buffer)
    ELSE LET char == Head(rest)
         IN  IF char = "'" /\ ~dq
             THEN KnownFunctionsOutsideQuotesFrom(Tail(rest),
                      Append(result \o FlushBuffer(buffer), char), <<>>, ~sq, dq)
             ELSE IF char = "\"" /\ ~sq
             THEN KnownFunctionsOutsideQuotesFrom(Tail(rest),
                      Append(result \o FlushBuffer(buffer), char), <<>>, sq, ~dq)
             ELSE IF sq \/ dq
             THEN KnownFunctionsOutsideQuotesFrom(Tail(rest), Append(result, char), buffer,
                                                  sq, dq)
             ELSE KnownFunctionsOutsideQuotesFrom(Tail(rest), result, Append(buffer, char),
                                                  sq, dq)

NormalizeKnownFunctionsOutsideQuotes(value) ==
    KnownFunctionsOutsideQuotesFrom(value, <<>>, <<>>, FALSE, FALSE)

\* normalizeDefault: expr and the result are <<>> for null or undefined, <<text>> otherwise
NormalizeDefault(expr) ==
    IF expr = <<>> THEN <<>>
    ELSE With(Trim(expr[1]), LAMBDA trimmed :
            IF Len(trimmed) = 0 THEN <<>>
            ELSE With(NormalizeSpacesOutsideQuotes(trimmed), LAMBDA normalizedSpacing :
                 With(NormalizePunctuationOutsideQuotes(normalizedSpacing),
                      LAMBDA normalizedPunctuation :
                          <<NormalizeKnownFunctionsOutsideQuotes(normalizedPunctuation)>>)))

-----------------------------------------------------------------------------
(* Changes of the columns present in both the snapshot and the schema *)

\* the (table, column) names present in both oldState and newSchema
CommonColumns ==
    {tc \in Range(AllTableNames) \X Range(AllColNames) :
        /\ HasKey(oldState.tables, tc[1]) /\ HasKey(newSchema.tables, tc[1])
        /\ HasKey(Get(oldState.tables, tc[1]).columns, tc[2])
        /\ tc[2] \in GetColumnNamesFromSchema(Get(newSchema.tables, tc[1]).columns)}

\* the column tc as the snapshot has it, and as the schema declares it
PreviousColumn(tc) == Get(Get(oldState.tables, tc[1]).columns, tc[2])
DeclaredColumn(tc) ==
    CHOOSE column \in Range(Get(newSchema.tables, tc[1]).columns) : column.name = tc[2]

\* the positions of operations of kind k on the column tc
ColumnOps(k, tc) ==
    {i \in 1..Len(operations) :
        /\ operations[i].kind = k
        /\ operations[i].tableName = tc[1]
        /\ operations[i].columnName = tc[2]}

\* nullable ?? true
IsNullable(column) == column.nullable = <<>> \/ column.nullable = <<TRUE>>

\* C15: after diffSchemas, every column present in both old and new has one
\* column_default_changed operation if its normalised default expressions differ, and
\* none if they are equal
C15_DefaultChangeDetection ==
    outcome = "diffed" =>
        \A tc \in CommonColumns :
            Cardinality(ColumnOps("column_default_changed", tc)) =
                IF NormalizeDefault(PreviousColumn(tc).default)
                       # NormalizeDefault(DeclaredColumn(tc).default)
                THEN 1 ELSE 0

\* C16: after diffSchemas, every column present in both old and new has one
\* column_nullability_changed operation if its nullability differs (an absent flag
\* meaning nullable), and none if it is the same
C16_NullabilityChangeDetection ==
    outcome = "diffed" =>
        \A tc \in CommonColumns :
            Cardinality(ColumnOps("column_nullability_changed", tc)) =
                IF IsNullable(PreviousColumn(tc)) # IsNullable(DeclaredColumn(tc))
                THEN 1 ELSE 0

\* the normal form of a type as the contract words it: lower case, no white space at the
\* ends, runs of white space collapsed to one space, no space next to ( , )
Punctuation == {"(", ",", ")"}
TypeNormalForm(type) ==
    LET spaced == CollapseSpaces(Trim(ToLowerCase(type)))
        kept == {i \in 1..Len(spaced) :
                    spaced[i] = " " =>
                        /\ i > 1 /\ spaced[i - 1] \notin Punctuation
                        /\ i < Len(spaced) /\ spaced[i + 1] \notin Punctuation}
        Nth(n) == CHOOSE i \in kept : Cardinality({j \in kept : j < i}) = n - 1
    IN  [n \in 1..Cardinality(kept) |-> spaced[Nth(n)]]

\* the position of the column named c in the declared columns of table t
DeclaredAt(t, c) ==
    CHOOSE i \in 1..Len(Get(newSchema.tables, t).columns) :
        Get(newSchema.tables, t).columns[i].name = c

TypeChanges == Positions(operations, "column_type_changed")

\* C17: after diffSchemas, every column present in both old and new has one
\* column_type_changed operation, carrying the old and the new type as written, if the
\* normal forms of the two types differ, and none if they are equal; the type changes of
\* one table are in the order in which the new table declares the columns
C17_TypeChangeDetection ==
    outcome = "diffed" =>
        /\ \A tc \in CommonColumns :
              IF TypeNormalForm(PreviousColumn(tc).type) # TypeNormalForm(DeclaredColumn(tc).type)
              THEN /\ Cardinality(ColumnOps("column_type_changed", tc)) = 1
                   /\ \A i \in ColumnOps("column_type_changed", tc) :
                         /\ operations[i].fromType = PreviousColumn(tc).type
                         /\ operations[i].toType = DeclaredColumn(tc).type
              ELSE ColumnOps("column_type_changed", tc) = {}
        /\ \A i \in TypeChanges :
              <<operations[i].tableName, operations[i].columnName>> \in CommonColumns
        /\ \A i, j \in TypeChanges :
              (i < j /\ operations[i].tableName = operations[j].tableName) =>
                  DeclaredAt(operations[i].tableName, operations[i].columnName)
                      < DeclaredAt(operations[j].tableName, operations[j].columnName)

\* two columns of one table changed type, and the snapshot keeps them in the other order
C17_Witness ==
    /\ outcome = "diffed"
    /\ \E i, j \in TypeChanges :
          /\ i < j /\ operations[i].tableName = operations[j].tableName
          /\ \E p, q \in 1..Len(Get(oldState.tables, operations[i].tableName).columns) :
                /\ p < q
                /\ Get(oldState.tables, operations[i].tableName).columns[p].key
                       = operations[j].columnName
                /\ Get(oldState.tables, operations[i].tableName).columns[q].key
                       = operations[i].columnName

-----------------------------------------------------------------------------
(* The code generator, generator/sql-generator.ts, and the constraint names *)
(* of core/normalize.ts                                                      *)

\* the pieces of text of the generator's templates
G_create_table == <<"C", "R", "E", "A", "T", "E", " ", "T", "A", "B", "L", "E", " ">>
G_open == <<" ", "(">>
G_close == <<")", ";">>
G_indent == <<" ", " ">>
G_references == <<"r", "e", "f", "e", "r", "e", "n", "c", "e", "s", " ">>
G_primary_key == <<"p", "r", "i", "m", "a", "r", "y", " ", "k", "e", "y">>
G_unique == <<"u", "n", "i", "q", "u", "e">>
G_not_null == <<"n", "o", "t", " ", "n", "u", "l", "l">>
G_default == <<"d", "e", "f", "a", "u", "l", "t", " ">>
G_default_uuid == <<"d", "e", "f", "a", "u", "l", "t", " ", "g", "e", "n", "_", "r", "a", "n", "d", "o", "m", "_", "u", "u", "i", "d", "(", ")">>
G_drop_table == <<"D", "R", "O", "P", " ", "T", "A", "B", "L", "E", " ">>
G_alter_table == <<"A", "L", "T", "E", "R", " ", "T", "A", "B", "L", "E", " ">>
G_add_column == <<" ", "A", "D", "D", " ", "C", "O", "L", "U", "M", "N", " ">>
G_drop_column == <<" ", "D", "R", "O", "P", " ", "C", "O", "L", "U", "M", "N", " ">>
G_alter_column == <<" ", "A", "L", "T", "E", "R", " ", "C", "O", "L", "U", "M", "N", " ">>
G_type == <<" ", "T", "Y", "P", "E", " ">>
G_using == <<" ", "U", "S", "I", "N", "G", " ">>
G_cast == <<":", ":">>
G_add_constraint == <<" ", "A", "D", "D", " ", "C", "O", "N", "S", "T", "R", "A", "I", "N", "T", " ">>
G_unique_of == <<" ", "U", "N", "I", "Q", "U", "E", " ", "(">>
G_primary_key_of == <<" ", "P", "R", "I", "M", "A", "R", "Y", " ", "K", "E", "Y", " ", "(">>
G_drop_constraint == <<" ", "D", "R", "O", "P", " ", "C", "O", "N", "S", "T", "R", "A", "I", "N", "T", " ", "I", "F", " ", "E", "X", "I", "S", "T", "S", " ">>
G_pk == <<"p", "k", "_">>
G_uq == <<"u", "q", "_">>
G_pkey == <<"_", "p", "k", "e", "y">>
G_key == <<"_", "k", "e", "y">>

\* identifiers the schema accepts (/^[a-zA-Z_][a-zA-Z0-9_]*$/)
I_a == <<"a">>
I_a_b == <<"a", "_", "b">>
I_T == <<"T">>
I_t == <<"t">>
I_c == <<"c">>
I_b_c == <<"b", "_", "c">>
I_id == <<"i", "d">>

\* parts.join(sep)
RECURSIVE JoinWith(_, _)
JoinWith(parts, sep) ==
    IF parts = <<>> THEN <<>>
    ELSE IF Len(parts) = 1 THEN parts[1]
    ELSE parts[1] \o sep \o JoinWith(Tail(parts), sep)

\* [a-z0-9]
IsLowerAlnum(c) == c \in Digits \/ \E i \in 1..26 : Lower[i] = c

\* replace(/[^a-z0-9]+/g, '_')
RECURSIVE ReplaceOtherRuns(_)
ReplaceOtherRuns(s) ==
    IF s = <<>> THEN <<>>
    ELSE IF IsLowerAlnum(Head(s)) THEN <<Head(s)>> \o ReplaceOtherRuns(Tail(s))
    ELSE IF Len(s) >= 2 /\ ~IsLowerAlnum(s[2]) THEN ReplaceOtherRuns(Tail(s))
    ELSE <<"_">> \o ReplaceOtherRuns(Tail(s))

\* replace(/_+/g, '_')
RECURSIVE CollapseUnderscores(_)
CollapseUnderscores(s) ==
    IF s = <<>> THEN <<>>
    ELSE IF Head(s) = "_" /\ Len(s) >= 2 /\ s[2] = "_" THEN CollapseUnderscores(Tail(s))
    ELSE <<Head(s)>> \o CollapseUnderscores(Tail(s))

\* replace(/^_+|_+$/g, '')
RECURSIVE StripUnderscores(_)
StripUnderscores(s) ==
    IF s # <<>> /\ Head(s) = "_" THEN StripUnderscores(Tail(s))
    ELSE IF s # <<>> /\ s[Len(s)] = "_" THEN StripUnderscores(SubSeq(s, 1, Len(s) - 1))
    ELSE s

NormalizeIdent(input) ==
    With(ToLowerCase(Trim(input)), LAMBDA lowered :
    With(ReplaceOtherRuns(lowered), LAMBDA replaced :
    With(CollapseUnderscores(replaced), LAMBDA collapsed : StripUnderscores(collapsed))))

PkName(table) == G_pk \o NormalizeIdent(table)

UqName(table, column) == G_uq \o NormalizeIdent(table) \o <<"_">> \o NormalizeIdent(column)

LegacyPkName(table) == NormalizeIdent(table) \o G_pkey

LegacyUqName(table, column) ==
    NormalizeIdent(table) \o <<"_">> \o NormalizeIdent(column) \o G_key

\* Array.from(new Set(names)): the names in order, each once
RECURSIVE Distinct(_)
Distinct(names) ==
    IF names = <<>> THEN <<>>
    ELSE With(Distinct(SubSeq(names, 1, Len(names) - 1)), LAMBDA earlier :
            IF names[Len(names)] \in Range(earlier) THEN earlier
            ELSE Append(earlier, names[Len(names)]))

\* a variant for comparison: only the first of the names is dropped
GenerateDropConstraintStatementsFirstOnly(tableName, constraintNames) ==
    G_alter_table \o tableName \o G_drop_constraint \o constraintNames[1] \o <<";">>

GenerateDropConstraintStatements(tableName, constraintNames) ==
    With(Distinct(constraintNames), LAMBDA uniqueConstraintNames :
        JoinWith([i \in 1..Len(uniqueConstraintNames) |->
                     G_alter_table \o tableName \o G_drop_constraint
                         \o uniqueConstraintNames[i] \o <<";">>],
                 <<"\n">>))

GenerateAddUniqueConstraint(tableName, columnName) ==
    G_alter_table \o tableName \o G_add_constraint \o UqName(tableName, columnName)
        \o G_unique_of \o columnName \o <<")", ";">>

GenerateDropUniqueConstraint(tableName, columnName) ==
    GenerateDropConstraintStatements(tableName,
        <<UqName(tableName, columnName), LegacyUqName(tableName, columnName)>>)

GenerateDropPrimaryKeyConstraint(tableName) ==
    GenerateDropConstraintStatements(tableName, <<PkName(tableName), LegacyPkName(tableName)>>)

GenerateAddPrimaryKeyConstraint(tableName, columnName) ==
    G_alter_table \o tableName \o G_add_constraint \o PkName(tableName)
        \o G_primary_key_of \o columnName \o <<")", ";">>

\* generateColumnDefinition; an absent optional attribute of the column is <<>>
GenerateColumnDefinition(column, provider) ==
    JoinWith(
        <<column.name, column.type>>
        \o (IF column.foreignKey # <<>>
            THEN <<G_references \o column.foreignKey[1].table \o <<"(">>
                       \o column.foreignKey[1].column \o <<")">>>>
            ELSE <<>>)
        \o (IF column.primaryKey THEN <<G_primary_key>> ELSE <<>>)
        \o (IF column.unique THEN <<G_unique>> ELSE <<>>)
        \o (IF column.nullable = <<FALSE>> THEN <<G_not_null>> ELSE <<>>)
        \o (IF column.default # <<>> THEN <<G_default \o column.default[1]>>
            ELSE IF column.type = T_uuid /\ column.primaryKey /\ provider = "supabase"
            THEN <<G_default_uuid>>
            ELSE <<>>),
        <<" ">>)

GenerateCreateTable(table, provider) ==
    JoinWith(
        <<G_create_table \o table.name \o G_open>>
        \o [i \in 1..Len(table.columns) |->
               G_indent \o GenerateColumnDefinition(table.columns[i], provider)
                   \o (IF i = Len(table.columns) THEN <<>> ELSE <<",">>)]
        \o <<G_close>>,
        <<"\n">>)

GenerateDropTable(tableName) == G_drop_table \o tableName \o <<";">>

GenerateAddColumn(tableName, column, provider) ==
    G_alter_table \o tableName \o G_add_column
        \o GenerateColumnDefinition(column, provider) \o <<";">>

GenerateDropColumn(tableName, columnName) ==
    G_alter_table \o tableName \o G_drop_column \o columnName \o <<";">>

GenerateAlterColumnType(tableName, columnName, newType) ==
    G_alter_table \o tableName \o G_alter_column \o columnName \o G_type \o newType
        \o G_using \o columnName \o G_cast \o newType \o <<";">>

\* generateOperation; <<>> is the undefined a switch without a matching case returns
GenerateOperation(operation, provider) ==
    CASE operation.kind = "create_table" -> GenerateCreateTable(operation.table, provider)
      [] operation.kind = "drop_table" -> GenerateDropTable(operation.tableName)
      [] operation.kind = "column_type_changed" ->
            GenerateAlterColumnType(operation.tableName, operation.columnName, operation.toType)
      [] operation.kind = "add_column" ->
            GenerateAddColumn(operation.tableName, operation.column, provider)
      [] operation.kind = "drop_column" ->
            GenerateDropColumn(operation.tableName, operation.columnName)
      [] operation.kind = "column_unique_changed" ->
            IF operation.to
            THEN GenerateAddUniqueConstraint(operation.tableName, operation.columnName)
            ELSE GenerateDropUniqueConstraint(operation.tableName, operation.columnName)
      [] operation.kind = "drop_primary_key_constraint" ->
            GenerateDropPrimaryKeyConstraint(operation.tableName)
      [] operation.kind = "add_primary_key_constraint" ->
            GenerateAddPrimaryKeyConstraint(operation.tableName, operation.columnName)
      [] OTHER -> <<>>

\* generateSql: the statements that are not empty, joined by a blank line
GenerateSql(diffOperations, provider) ==
    JoinWith(FlatMap(LAMBDA operation :
                         With(GenerateOperation(operation, provider), LAMBDA text :
                             IF text # <<>> THEN <<text>> ELSE <<>>),
                     diffOperations),
             <<"\n", "\n">>)

-----------------------------------------------------------------------------
(* The generator specification: generateSql on a bounded family of operation *)
(* sequences                                                                 *)

\* operations per sequence
MaxOps == 2

Providers == {"supabase", "postgres"}

GenTableNames == {I_a, I_a_b, I_T, I_t}
GenColumnNames == {I_c, I_b_c}

\* a column with text for its name and type
GenColumn(n, ty, pk, nl, df) ==
    [name |-> n, type |-> ty, primaryKey |-> pk, unique |-> FALSE, nullable |-> nl,
     default |-> df, foreignKey |-> <<>>]

GenColumns ==
    {GenColumn(I_id, T_uuid, TRUE, <<>>, <<>>), GenColumn(I_c, T_text, FALSE, <<FALSE>>, <<D_now>>)}

\* operations of every kind of the vocabulary (types.d.ts and the kinds the generator names)
GenOperations ==
    {[kind |-> "create_table",
      table |-> [name |-> I_a, columns |-> cs, primaryKey |-> Null]] :
        cs \in {<<>>, <<GenColumn(I_id, T_uuid, TRUE, <<>>, <<>>)>>,
                <<GenColumn(I_id, T_uuid, TRUE, <<>>, <<>>),
                  GenColumn(I_c, T_text, FALSE, <<FALSE>>, <<D_now>>)>>}}
    \cup {[kind |-> "drop_table", tableName |-> I_a]}
    \cup {[kind |-> "column_type_changed", tableName |-> I_a, columnName |-> I_c,
           fromType |-> T_int, toType |-> T_bigint]}
    \cup {[kind |-> "add_column", tableName |-> I_a, column |-> c] : c \in GenColumns}
    \cup {[kind |-> "drop_column", tableName |-> I_a, columnName |-> I_c]}
    \cup {[kind |-> "column_unique_changed", tableName |-> t, columnName |-> c,
           from |-> ~to, to |-> to] :
              t \in GenTableNames, c \in GenColumnNames, to \in BOOLEAN}
    \cup {[kind |-> "drop_primary_key_constraint", tableName |-> t] : t \in GenTableNames}
    \cup {[kind |-> "add_primary_key_constraint", tableName |-> I_a, columnName |-> I_c]}
    \cup {[kind |-> "column_nullability_changed", tableName |-> I_a, columnName |-> I_c,
           from |-> ~to, to |-> to] : to \in BOOLEAN}
    \cup {[kind |-> "column_default_changed", tableName |-> I_a, columnName |-> I_c,
           fromDefault |-> Null, toDefault |-> D_now]}

GenInputs == UNION {[1..n -> GenOperations] : n \in 0..MaxOps}

InitGen ==
    /\ operations \in GenInputs
    /\ oldState = [version |-> 1, tables |-> <<>>]
    /\ newSchema = [tables |-> <<>>]
    /\ outcome = "diffed" /\ runs = 0 /\ migrations = 0
    /\ sql = <<>> /\ SplitStart /\ ParseStart /\ ReplayIdle /\ GenIdle /\ ValidateIdle
    /\ phase = "idle"

\* generateSql({operations}, provider)
CallGenerateSql ==
    /\ phase = "idle"
    /\ \E provider \in Providers : generated' = GenerateSql(operations, provider)
    /\ phase' = "generated"
    /\ UNCHANGED <<diffVars, splitVars, parseVars, replayVars, validateVars>>

NextGen == CallGenerateSql

SpecGen == InitGen /\ [][NextGen]_vars

-----------------------------------------------------------------------------
(* The generated text, read back as blocks and statements *)

\* text.indexOf(sep, from), counted from 1; 0 when there is none
IndexOf(text, sep, from) ==
    LET found == {i \in from..(Len(text) - Len(sep) + 1) :
                     SubSeq(text, i, i + Len(sep) - 1) = sep}
    IN  IF found = {} THEN 0 ELSE CHOOSE i \in found : \A j \in found : i <= j

\* text.split(sep), from position from
RECURSIVE SplitText(_, _, _)
SplitText(text, sep, from) ==
    With(IndexOf(text, sep, from), LAMBDA at :
        IF at = 0 THEN <<SubSeq(text, from, Len(text))>>
        ELSE <<SubSeq(text, from, at - 1)>> \o SplitText(text, sep, at + Len(sep)))

\* the blocks of the generated text: the runs of lines between blank lines
Blocks == IF generated = <<>> THEN <<>> ELSE SplitText(generated, <<"\n", "\n">>, 1)

\* C12: generateSql returns one block per operation, in the order of the operations, no
\* block empty, the blocks separated by one blank line, and the empty text for no
\* operations
C12_OneBlockPerOperation ==
    phase = "generated" =>
        /\ Len(Blocks) = Len(operations)
        /\ \A i \in 1..Len(Blocks) :
              /\ Blocks[i] # <<>>
              /\ \E provider \in Providers :
                    Blocks[i] = GenerateOperation(operations[i], provider)

\* the operations before the i-th that the generator renders
RenderedBefore(i) ==
    Cardinality({j \in 1..(i - 1) : GenerateOperation(operations[j], "postgres") # <<>>})

\* the statements of the block of the i-th operation
StatementsOf(i) == SplitText(Blocks[RenderedBefore(i) + 1], <<"\n">>, 1)

\* ALTER TABLE <tableName> DROP CONSTRAINT IF EXISTS <name>;
DropConstraintIfExists(tableName, name) ==
    <<"A", "L", "T", "E", "R", " ", "T", "A", "B", "L", "E", " ">> \o tableName
        \o <<" ", "D", "R", "O", "P", " ", "C", "O", "N", "S", "T", "R", "A", "I", "N", "T",
             " ", "I", "F", " ", "E", "X", "I", "S", "T", "S", " ">> \o name \o <<";">>

UniqueDrops ==
    {i \in 1..Len(operations) :
        operations[i].kind = "column_unique_changed" /\ ~operations[i].to}

PrimaryKeyDrops == Positions(operations, "drop_primary_key_constraint")

\* C13: a column_unique_changed to false on (t, c) gives exactly the two statements that
\* drop uq_<t>_<c> and then <t>_<c>_key, and a drop_primary_key_constraint on t exactly
\* the two that drop pk_<t> and then <t>_pkey, <t> and <c> being the normalised names
C13_LegacySafeRemoval ==
    phase = "generated" =>
        /\ \A i \in UniqueDrops :
              LET t == operations[i].tableName
                  nt == NormalizeIdent(operations[i].tableName)
                  nc == NormalizeIdent(operations[i].columnName)
              IN  StatementsOf(i) =
                      <<DropConstraintIfExists(t, <<"u", "q", "_">> \o nt \o <<"_">> \o nc),
                        DropConstraintIfExists(t, nt \o <<"_">> \o nc \o <<"_", "k", "e", "y">>)>>
        /\ \A i \in PrimaryKeyDrops :
              LET t == operations[i].tableName
                  nt == NormalizeIdent(operations[i].tableName)
              IN  StatementsOf(i) =
                      <<DropConstraintIfExists(t, <<"p", "k", "_">> \o nt),
                        DropConstraintIfExists(t, nt \o <<"_", "p", "k", "e", "y">>)>>

\* a unique constraint and a primary key were dropped in one run, on a table whose name
\* is not in normal form
C13_Witness ==
    /\ phase = "generated"
    /\ \E i \in UniqueDrops : \E j \in PrimaryKeyDrops :
          /\ i < j
          /\ operations[i].tableName = I_T
          /\ Len(StatementsOf(j)) = 2

\* C14: two different (table, column) pairs never have the same uqName, and two different
\* tables never the same pkName
C14_CollisionSafeNames ==
    phase = "generated" =>
        \A i, j \in 1..Len(operations) :
            /\ (/\ operations[i].kind = "column_unique_changed"
                /\ operations[j].kind = "column_unique_changed"
                /\ <<operations[i].tableName, operations[i].columnName>>
                       # <<operations[j].tableName, operations[j].columnName>>)
               => UqName(operations[i].tableName, operations[i].columnName)
                      # UqName(operations[j].tableName, operations[j].columnName)
            /\ (/\ operations[i].kind = "drop_primary_key_constraint"
                /\ operations[j].kind = "drop_primary_key_constraint"
                /\ operations[i].tableName # operations[j].tableName)
               => PkName(operations[i].tableName) # PkName(operations[j].tableName)

-----------------------------------------------------------------------------
(* The operation replayer, core/sql/apply-ops.ts.  A column of the table map *)
(* carries name, type, nullable, default (<<>> for undefined or null),       *)
(* unique and primaryKey (FALSE for undefined); a table's primaryKey is <<>> *)
(* for undefined or null, <<name>> otherwise.                                *)

R_unnamed == <<"<", "u", "n", "n", "a", "m", "e", "d", ">">>
R_constraint == <<"C", "o", "n", "s", "t", "r", "a", "i", "n", "t", " ">>
R_unsupported == <<" ", "i", "s", " ", "u", "n", "s", "u", "p", "p", "o", "r", "t", "e", "d", " ", "f", "o", "r", " ", "s", "c", "h", "e", "m", "a", " ", "r", "e", "c", "o", "n", "s", "t", "r", "u", "c", "t", "i", "o", "n">>
R_PRIMARY_KEY == <<"P", "R", "I", "M", "A", "R", "Y", "_", "K", "E", "Y">>
R_UNIQUE == <<"U", "N", "I", "Q", "U", "E">>
N_pkey == <<"_", "p", "k", "e", "y">>
N_pk == <<"p", "k", "_">>
N_key == <<"_", "k", "e", "y">>
N_uq == <<"u", "q", "_">>

ToSchemaColumn(column) ==
    [name |-> column.name, type |-> column.type, nullable |-> column.nullable,
     default |-> column.default, unique |-> column.unique, primaryKey |-> column.primaryKey]

\* columns.findIndex(column => column.name === name), counted from 1; 0 when there is none
FindColumn(columns, name) ==
    IF \E i \in 1..Len(columns) : columns[i].name = name
    THEN CHOOSE i \in 1..Len(columns) :
            columns[i].name = name /\ \A j \in 1..(i - 1) : columns[j].name # name
    ELSE 0

\* constraint.type as the template prints it
ConstraintTypeText(type) == IF type = "PRIMARY_KEY" THEN R_PRIMARY_KEY ELSE R_UNIQUE

\* applySingleColumnConstraint: the table after the call and the value returned
ApplySingleColumnConstraint(table, constraint) ==
    IF Len(constraint.columns) # 1 THEN [applied |-> FALSE, table |-> table]
    ELSE With(FindColumn(table.columns, constraint.columns[1]), LAMBDA target :
            IF target = 0 THEN [applied |-> FALSE, table |-> table]
            ELSE IF constraint.type = "PRIMARY_KEY"
            THEN [applied |-> TRUE,
                  table |-> [table EXCEPT !.primaryKey = <<table.columns[target].name>>,
                                          !.columns[target].primaryKey = TRUE,
                                          !.columns[target].nullable = FALSE]]
            ELSE [applied |-> TRUE,
                  table |-> [table EXCEPT !.columns[target].unique = TRUE]])

\* clearConstraintByName: the table after the call
ClearConstraintByName(table, name) ==
    IF EndsWith(name, N_pkey) \/ StartsWith(name, N_pk)
    THEN IF table.primaryKey # <<>>
         THEN With(FindColumn(table.columns, table.primaryKey[1]), LAMBDA pkColumn :
                 IF pkColumn # 0
                 THEN [table EXCEPT !.primaryKey = <<>>,
                                    !.columns[pkColumn].primaryKey = FALSE]
                 ELSE [table EXCEPT !.primaryKey = <<>>])
         ELSE table
    ELSE IF EndsWith(name, N_key) \/ StartsWith(name, N_uq)
    THEN [table EXCEPT !.columns = [i \in 1..Len(table.columns) |->
                                       [table.columns[i] EXCEPT !.unique = FALSE]]]
    ELSE table

\* tables[name] = table: an existing key keeps its place, a new one is added last
SetTable(tableMap, name, table) ==
    IF HasKey(tableMap, name)
    THEN [i \in 1..Len(tableMap) |->
             IF tableMap[i].key = name THEN [key |-> name, value |-> table] ELSE tableMap[i]]
    ELSE Append(tableMap, [key |-> name, value |-> table])

\* getOrCreateTable: the table map after the call
GetOrCreateTable(tableMap, name) ==
    IF ~HasKey(tableMap, name)
    THEN SetTable(tableMap, name, [name |-> name, columns |-> <<>>, primaryKey |-> <<>>])
    ELSE tableMap

\* for (const column of table.columns) if (column.primaryKey) table.primaryKey = column.name
LastFlagged(columns) ==
    IF \E i \in 1..Len(columns) : columns[i].primaryKey
    THEN <<columns[CHOOSE i \in 1..Len(columns) :
                      columns[i].primaryKey
                      /\ \A j \in (i + 1)..Len(columns) : ~columns[j].primaryKey].name>>
    ELSE <<>>

\* the warning of CREATE TABLE for a constraint that was not applied
CreateTableWarning(op, constraint) ==
    [statement |-> G_create_table \o op.table,
     reason |-> R_constraint \o ConstraintTypeText(constraint.type)
                    \o (IF constraint.name # <<>>
                        THEN <<" ", "(">> \o constraint.name[1] \o <<")">> ELSE <<>>)
                    \o R_unsupported]

\* the loop over op.constraints, from the n-th constraint: the table and the warnings after
RECURSIVE ApplyConstraintsFrom(_, _, _, _)
ApplyConstraintsFrom(op, n, table, warns) ==
    IF n > Len(op.constraints) THEN [table |-> table, warnings |-> warns]
    ELSE With(ApplySingleColumnConstraint(table, op.constraints[n]), LAMBDA result :
            ApplyConstraintsFrom(op, n + 1, result.table,
                IF result.applied THEN warns
                ELSE Append(warns, CreateTableWarning(op, op.constraints[n]))))

\* case 'CREATE_TABLE'
CaseCreateTable(tableMap, warns, op) ==
    With([i \in 1..Len(op.columns) |-> ToSchemaColumn(op.columns[i])], LAMBDA columns :
    With(ApplyConstraintsFrom(op, 1,
             [name |-> op.table, columns |-> columns, primaryKey |-> LastFlagged(columns)],
             warns), LAMBDA result :
        [tables |-> SetTable(tableMap, op.table, result.table),
         warnings |-> result.warnings]))

\* case 'ADD_COLUMN'
CaseAddColumn(tableMap, warns, op) ==
    With(GetOrCreateTable(tableMap, op.table), LAMBDA created :
    With(Get(created, op.table), LAMBDA table :
        [tables |-> SetTable(created, op.table,
            [table EXCEPT
                !.columns = Append(SelectSeq(table.columns,
                                             LAMBDA column : column.name # op.column.name),
                                   ToSchemaColumn(op.column)),
                !.primaryKey = IF op.column.primaryKey THEN <<op.column.name>>
                               ELSE table.primaryKey]),
         warnings |-> warns]))

\* a variant for comparison: the table of a column operation is created when it is missing
ChangeColumnCreatingTable(tableMap, warns, op, change) ==
    With(GetOrCreateTable(tableMap, op.table), LAMBDA created :
    With(Get(created, op.table), LAMBDA table :
    With(FindColumn(table.columns, op.column), LAMBDA column :
        IF column = 0 THEN [tables |-> created, warnings |-> warns]
        ELSE [tables |-> SetTable(created, op.table,
                            [table EXCEPT !.columns[column][change.field] = change.value]),
              warnings |-> warns])))

\* the cases that change one attribute of one column: the table is looked up, then the
\* first column of that name, and its field change.field is given change.value; a
\* missing table or column changes nothing
ChangeColumn(tableMap, warns, op, change) ==
    IF ~HasKey(tableMap, op.table) THEN [tables |-> tableMap, warnings |-> warns]
    ELSE With(Get(tableMap, op.table), LAMBDA table :
         With(FindColumn(table.columns, op.column), LAMBDA column :
            IF column = 0 THEN [tables |-> tableMap, warnings |-> warns]
            ELSE [tables |-> SetTable(tableMap, op.table,
                                [table EXCEPT !.columns[column][change.field] = change.value]),
                  warnings |-> warns]))

\* case 'ALTER_COLUMN_TYPE'
CaseAlterColumnType(tableMap, warns, op) ==
    ChangeColumn(tableMap, warns, op, [field |-> "type", value |-> op.toType])

\* case 'SET_NOT_NULL'
CaseSetNotNull(tableMap, warns, op) ==
    ChangeColumn(tableMap, warns, op, [field |-> "nullable", value |-> FALSE])

\* case 'DROP_NOT_NULL'
CaseDropNotNull(tableMap, warns, op) ==
    ChangeColumn(tableMap, warns, op, [field |-> "nullable", value |-> TRUE])

\* case 'SET_DEFAULT'
CaseSetDefault(tableMap, warns, op) ==
    ChangeColumn(tableMap, warns, op, [field |-> "default", value |-> <<op.expr>>])

\* case 'DROP_DEFAULT'
CaseDropDefault(tableMap, warns, op) ==
    ChangeColumn(tableMap, warns, op, [field |-> "default", value |-> <<>>])

\* the warning of ADD CONSTRAINT for a constraint that was not applied
AddConstraintWarning(op) ==
    [statement |-> G_alter_table \o op.table \o G_add_constraint
                       \o (IF op.constraint.name # <<>> THEN op.constraint.name[1]
                           ELSE R_unnamed),
     reason |-> R_constraint \o ConstraintTypeText(op.constraint.type) \o R_unsupported]

\* case 'ADD_CONSTRAINT'
CaseAddConstraint(tableMap, warns, op) ==
    IF ~HasKey(tableMap, op.table) THEN [tables |-> tableMap, warnings |-> warns]
    ELSE With(ApplySingleColumnConstraint(Get(tableMap, op.table), op.constraint),
              LAMBDA result :
                [tables |-> SetTable(tableMap, op.table, result.table),
                 warnings |-> IF result.applied THEN warns
                              ELSE Append(warns, AddConstraintWarning(op))])

\* case 'DROP_CONSTRAINT'
CaseDropConstraint(tableMap, warns, op) ==
    IF ~HasKey(tableMap, op.table) THEN [tables |-> tableMap, warnings |-> warns]
    ELSE [tables |-> SetTable(tableMap, op.table,
                        ClearConstraintByName(Get(tableMap, op.table), op.name)),
          warnings |-> warns]

\* case 'DROP_COLUMN'
CaseDropColumn(tableMap, warns, op) ==
    IF ~HasKey(tableMap, op.table) THEN [tables |-> tableMap, warnings |-> warns]
    ELSE With(Get(tableMap, op.table), LAMBDA table :
            [tables |-> SetTable(tableMap, op.table,
                [table EXCEPT
                    !.columns = SelectSeq(table.columns,
                                          LAMBDA column : column.name # op.column),
                    !.primaryKey = IF table.primaryKey = <<op.column>> THEN <<>>
                                   ELSE table.primaryKey]),
             warnings |-> warns])

\* case 'DROP_TABLE': delete tables[op.table]
CaseDropTable(tableMap, warns, op) ==
    [tables |-> SelectSeq(tableMap, LAMBDA entry : entry.key # op.table), warnings |-> warns]

-----------------------------------------------------------------------------
(* Replaying the operations of a migration: parseMigrationSql's operations, *)
(* gone through by applySqlOps one at a time.                               *)

\* operations per replayed migration
MaxReplayOps == 3

\* CREATE TABLE a (x int, y text default 'n')
Rq_Create == <<"C", "R", "E", "A", "T", "E", " ", "T", "A", "B", "L", "E", " ", "a", " ", "(", "x", " ", "i", "n", "t", ",", " ", "y", " ", "t", "e", "x", "t", " ", "d", "e", "f", "a", "u", "l", "t", " ", "'", "n", "'", ")">>
\* CREATE TABLE a (x int primary key, y int primary key)
Rq_CreateTwoKeys == <<"C", "R", "E", "A", "T", "E", " ", "T", "A", "B", "L", "E", " ", "a", " ", "(", "x", " ", "i", "n", "t", " ", "p", "r", "i", "m", "a", "r", "y", " ", "k", "e", "y", ",", " ", "y", " ", "i", "n", "t", " ", "p", "r", "i", "m", "a", "r", "y", " ", "k", "e", "y", ")">>
\* CREATE TABLE a (x int NOT NULL)
Rq_CreateNotNull == <<"C", "R", "E", "A", "T", "E", " ", "T", "A", "B", "L", "E", " ", "a", " ", "(", "x", " ", "i", "n", "t", " ", "N", "O", "T", " ", "N", "U", "L", "L", ")">>
\* CREATE TABLE a (x int, y int, PRIMARY KEY (x, y))
Rq_CreateWideKey == <<"C", "R", "E", "A", "T", "E", " ", "T", "A", "B", "L", "E", " ", "a", " ", "(", "x", " ", "i", "n", "t", ",", " ", "y", " ", "i", "n", "t", ",", " ", "P", "R", "I", "M", "A", "R", "Y", " ", "K", "E", "Y", " ", "(", "x", ",", " ", "y", ")", ")">>
\* CREATE TABLE b (x uuid primary key, y text unique)
Rq_CreateOther == <<"C", "R", "E", "A", "T", "E", " ", "T", "A", "B", "L", "E", " ", "b", " ", "(", "x", " ", "u", "u", "i", "d", " ", "p", "r", "i", "m", "a", "r", "y", " ", "k", "e", "y", ",", " ", "y", " ", "t", "e", "x", "t", " ", "u", "n", "i", "q", "u", "e", ")">>
\* ALTER TABLE a ADD COLUMN y text
Rq_AddColumn == <<"A", "L", "T", "E", "R", " ", "T", "A", "B", "L", "E", " ", "a", " ", "A", "D", "D", " ", "C", "O", "L", "U", "M", "N", " ", "y", " ", "t", "e", "x", "t">>
\* ALTER TABLE b ADD COLUMN x int
Rq_AddColumnOther == <<"A", "L", "T", "E", "R", " ", "T", "A", "B", "L", "E", " ", "b", " ", "A", "D", "D", " ", "C", "O", "L", "U", "M", "N", " ", "x", " ", "i", "n", "t">>
\* ALTER TABLE a ALTER COLUMN x TYPE bigint
Rq_AlterType == <<"A", "L", "T", "E", "R", " ", "T", "A", "B", "L", "E", " ", "a", " ", "A", "L", "T", "E", "R", " ", "C", "O", "L", "U", "M", "N", " ", "x", " ", "T", "Y", "P", "E", " ", "b", "i", "g", "i", "n", "t">>
\* ALTER TABLE b ALTER COLUMN x TYPE bigint
Rq_AlterTypeOther == <<"A", "L", "T", "E", "R", " ", "T", "A", "B", "L", "E", " ", "b", " ", "A", "L", "T", "E", "R", " ", "C", "O", "L", "U", "M", "N", " ", "x", " ", "T", "Y", "P", "E", " ", "b", "i", "g", "i", "n", "t">>
\* ALTER TABLE a ALTER COLUMN x SET NOT NULL
Rq_SetNotNull == <<"A", "L", "T", "E", "R", " ", "T", "A", "B", "L", "E", " ", "a", " ", "A", "L", "T", "E", "R", " ", "C", "O", "L", "U", "M", "N", " ", "x", " ", "S", "E", "T", " ", "N", "O", "T", " ", "N", "U", "L", "L">>
\* ALTER TABLE a ALTER COLUMN x DROP NOT NULL
Rq_DropNotNull == <<"A", "L", "T", "E", "R", " ", "T", "A", "B", "L", "E", " ", "a", " ", "A", "L", "T", "E", "R", " ", "C", "O", "L", "U", "M", "N", " ", "x", " ", "D", "R", "O", "P", " ", "N", "O", "T", " ", "N", "U", "L", "L">>
\* ALTER TABLE a ALTER COLUMN x SET DEFAULT 0
Rq_SetDefault == <<"A", "L", "T", "E", "R", " ", "T", "A", "B", "L", "E", " ", "a", " ", "A", "L", "T", "E", "R", " ", "C", "O", "L", "U", "M", "N", " ", "x", " ", "S", "E", "T", " ", "D", "E", "F", "A", "U", "L", "T", " ", "0">>
\* ALTER TABLE a ALTER COLUMN y DROP DEFAULT
Rq_DropDefault == <<"A", "L", "T", "E", "R", " ", "T", "A", "B", "L", "E", " ", "a", " ", "A", "L", "T", "E", "R", " ", "C", "O", "L", "U", "M", "N", " ", "y", " ", "D", "R", "O", "P", " ", "D", "E", "F", "A", "U", "L", "T">>
\* ALTER TABLE a ADD CONSTRAINT uq_a_x UNIQUE (x)
Rq_AddUnique == <<"A", "L", "T", "E", "R", " ", "T", "A", "B", "L", "E", " ", "a", " ", "A", "D", "D", " ", "C", "O", "N", "S", "T", "R", "A", "I", "N", "T", " ", "u", "q", "_", "a", "_", "x", " ", "U", "N", "I", "Q", "U", "E", " ", "(", "x", ")">>
\* ALTER TABLE a ADD CONSTRAINT pk_a PRIMARY KEY (x, y)
Rq_AddWideKey == <<"A", "L", "T", "E", "R", " ", "T", "A", "B", "L", "E", " ", "a", " ", "A", "D", "D", " ", "C", "O", "N", "S", "T", "R", "A", "I", "N", "T", " ", "p", "k", "_", "a", " ", "P", "R", "I", "M", "A", "R", "Y", " ", "K", "E", "Y", " ", "(", "x", ",", " ", "y", ")">>
\* ALTER TABLE b ADD CONSTRAINT pk_b PRIMARY KEY (x, y)
Rq_AddWideKeyOther == <<"A", "L", "T", "E", "R", " ", "T", "A", "B", "L", "E", " ", "b", " ", "A", "D", "D", " ", "C", "O", "N", "S", "T", "R", "A", "I", "N", "T", " ", "p", "k", "_", "b", " ", "P", "R", "I", "M", "A", "R", "Y", " ", "K", "E", "Y", " ", "(", "x", ",", " ", "y", ")">>
\* ALTER TABLE a ADD CONSTRAINT a_pkey PRIMARY KEY (y)
Rq_AddKey == <<"A", "L", "T", "E", "R", " ", "T", "A", "B", "L", "E", " ", "a", " ", "A", "D", "D", " ", "C", "O", "N", "S", "T", "R", "A", "I", "N", "T", " ", "a", "_", "p", "k", "e", "y", " ", "P", "R", "I", "M", "A", "R", "Y", " ", "K", "E", "Y", " ", "(", "y", ")">>
\* ALTER TABLE a DROP CONSTRAINT a_pkey
Rq_DropKey == <<"A", "L", "T", "E", "R", " ", "T", "A", "B", "L", "E", " ", "a", " ", "D", "R", "O", "P", " ", "C", "O", "N", "S", "T", "R", "A", "I", "N", "T", " ", "a", "_", "p", "k", "e", "y">>
\* ALTER TABLE a DROP CONSTRAINT uq_a_x
Rq_DropUnique == <<"A", "L", "T", "E", "R", " ", "T", "A", "B", "L", "E", " ", "a", " ", "D", "R", "O", "P", " ", "C", "O", "N", "S", "T", "R", "A", "I", "N", "T", " ", "u", "q", "_", "a", "_", "x">>
\* ALTER TABLE a DROP CONSTRAINT other
Rq_DropNamed == <<"A", "L", "T", "E", "R", " ", "T", "A", "B", "L", "E", " ", "a", " ", "D", "R", "O", "P", " ", "C", "O", "N", "S", "T", "R", "A", "I", "N", "T", " ", "o", "t", "h", "e", "r">>
\* ALTER TABLE a DROP COLUMN x
Rq_DropColumn == <<"A", "L", "T", "E", "R", " ", "T", "A", "B", "L", "E", " ", "a", " ", "D", "R", "O", "P", " ", "C", "O", "L", "U", "M", "N", " ", "x">>
\* DROP TABLE a
Rq_DropTable == <<"D", "R", "O", "P", " ", "T", "A", "B", "L", "E", " ", "a">>

\* the statements the replayed migrations are made of
ReplayStatements ==
    <<Rq_Create, Rq_CreateTwoKeys, Rq_CreateNotNull, Rq_CreateWideKey, Rq_CreateOther, Rq_AddColumn, Rq_AddColumnOther, Rq_AlterType, Rq_AlterTypeOther, Rq_SetNotNull, Rq_DropNotNull, Rq_SetDefault, Rq_DropDefault, Rq_AddUnique, Rq_AddWideKey, Rq_AddWideKeyOther, Rq_AddKey, Rq_DropKey, Rq_DropUnique, Rq_DropNamed, Rq_DropColumn, Rq_DropTable>>

\* the operation of a statement as parseMigrationSql pushes it: the column's default and
\* the SET DEFAULT expression go through normalizeDefault there
SqlColumn(parsed) ==
    [name |-> parsed.name, type |-> parsed.type, nullable |-> parsed.nullable,
     unique |-> parsed.unique, primaryKey |-> parsed.primaryKey,
     default |-> NormalizeDefault(parsed.defaultTokens)]

SqlOpOf(parsed) ==
    CASE parsed.kind = "CREATE_TABLE" ->
            [parsed EXCEPT !.columns = [i \in 1..Len(parsed.columns) |->
                                           SqlColumn(parsed.columns[i])]]
      [] parsed.kind = "ADD_COLUMN" -> [parsed EXCEPT !.column = SqlColumn(parsed.column)]
      [] parsed.kind = "SET_DEFAULT" ->
            With(NormalizeDefault(<<parsed.rawExpr>>), LAMBDA expr :
                [kind |-> "SET_DEFAULT", table |-> parsed.table, column |-> parsed.column,
                 expr |-> IF expr # <<>> THEN expr[1] ELSE parsed.rawExpr])
      [] OTHER -> parsed

\* the operations of the statements, in the order of ReplayStatements
ReplayOps ==
    [i \in 1..Len(ReplayStatements) |-> SqlOpOf(FirstParsed(ReplayStatements[i]))]

\* the lists of at most MaxReplayOps statements
ReplayLists == UNION {[1..n -> 1..Len(ReplayStatements)] : n \in 1..MaxReplayOps}

InitReplay ==
    /\ \E list \in ReplayLists : ops = [i \in 1..Len(list) |-> ReplayOps[list[i]]]
    /\ position = 1 /\ warnings = <<>>
    /\ oldState = [version |-> 1, tables |-> <<>>]
    /\ newSchema = [tables |-> <<>>]
    /\ operations = <<>> /\ outcome = "diffed" /\ runs = 0 /\ migrations = 0
    /\ sql = <<>> /\ SplitStart /\ ReplayIdle /\ GenIdle /\ ValidateIdle
    /\ phase = "replay"

\* the operation of the iteration
Op == ops[applied + 1]

\* the loop of applySqlOps is at an operation of kind kind
Replaying(kind) == phase = "replay" /\ applied < Len(ops) /\ Op.kind = kind

\* the iteration leaves result behind and the loop moves on
Applied(result) ==
    /\ replayTables' = result.tables
    /\ replayWarnings' = result.warnings
    /\ applied' = applied + 1
    /\ UNCHANGED <<dsl, reparsed, phase, diffVars, splitVars, parseVars, genVars, validateVars>>

\* one iteration of the loop, case 'CREATE_TABLE'
ReplayCreateTable ==
    /\ Replaying("CREATE_TABLE")
    /\ \E result \in {CaseCreateTable(replayTables, replayWarnings, Op)} : Applied(result)

\* one iteration of the loop, case 'ADD_COLUMN'
ReplayAddColumn ==
    /\ Replaying("ADD_COLUMN")
    /\ \E result \in {CaseAddColumn(replayTables, replayWarnings, Op)} : Applied(result)

\* one iteration of the loop, case 'ALTER_COLUMN_TYPE'
ReplayAlterColumnType ==
    /\ Replaying("ALTER_COLUMN_TYPE")
    /\ \E result \in {CaseAlterColumnType(replayTables, replayWarnings, Op)} : Applied(result)

\* one iteration of the loop, case 'SET_NOT_NULL'
ReplaySetNotNull ==
    /\ Replaying("SET_NOT_NULL")
    /\ \E result \in {CaseSetNotNull(replayTables, replayWarnings, Op)} : Applied(result)

\* one iteration of the loop, case 'DROP_NOT_NULL'
ReplayDropNotNull ==
    /\ Replaying("DROP_NOT_NULL")
    /\ \E result \in {CaseDropNotNull(replayTables, replayWarnings, Op)} : Applied(result)

\* one iteration of the loop, case 'SET_DEFAULT'
ReplaySetDefault ==
    /\ Replaying("SET_DEFAULT")
    /\ \E result \in {CaseSetDefault(replayTables, replayWarnings, Op)} : Applied(result)

\* one iteration of the loop, case 'DROP_DEFAULT'
ReplayDropDefault ==
    /\ Replaying("DROP_DEFAULT")
    /\ \E result \in {CaseDropDefault(replayTables, replayWarnings, Op)} : Applied(result)

\* one iteration of the loop, case 'ADD_CONSTRAINT'
ReplayAddConstraint ==
    /\ Replaying("ADD_CONSTRAINT")
    /\ \E result \in {CaseAddConstraint(replayTables, replayWarnings, Op)} : Applied(result)

\* one iteration of the loop, case 'DROP_CONSTRAINT'
ReplayDropConstraint ==
    /\ Replaying("DROP_CONSTRAINT")
    /\ \E result \in {CaseDropConstraint(replayTables, replayWarnings, Op)} : Applied(result)

\* one iteration of the loop, case 'DROP_COLUMN'
ReplayDropColumn ==
    /\ Replaying("DROP_COLUMN")
    /\ \E result \in {CaseDropColumn(replayTables, replayWarnings, Op)} : Applied(result)

\* one iteration of the loop, case 'DROP_TABLE'
ReplayDropTable ==
    /\ Replaying("DROP_TABLE")
    /\ \E result \in {CaseDropTable(replayTables, replayWarnings, Op)} : Applied(result)

\* return { schema: { tables }, warnings }
ReturnApplyResult ==
    /\ phase = "replay" /\ applied = Len(ops)
    /\ phase' = "replayed"
    /\ UNCHANGED <<replayVars, diffVars, splitVars, parseVars, genVars, validateVars>>

-----------------------------------------------------------------------------
(* The schema written as DSL text, core/sql/schema-to-dsl.ts *)

D_header == <<"#", " ", "S", "c", "h", "e", "m", "a", "F", "o", "r", "g", "e", " ", "s", "c", "h", "e", "m", "a", " ", "d", "e", "f", "i", "n", "i", "t", "i", "o", "n">>
D_table == <<"t", "a", "b", "l", "e">>
D_pk == <<"p", "k">>
D_unique == <<"u", "n", "i", "q", "u", "e">>
D_not_null == <<"n", "o", "t", " ", "n", "u", "l", "l">>
D_default == <<"d", "e", "f", "a", "u", "l", "t">>
D_nullable == <<"n", "u", "l", "l", "a", "b", "l", "e">>
D_fk == <<"f", "k">>

\* renderColumn
RenderColumn(column) ==
    G_indent \o JoinWith(<<column.name, column.type>>
                         \o (IF column.primaryKey THEN <<D_pk>> ELSE <<>>)
                         \o (IF column.unique THEN <<D_unique>> ELSE <<>>)
                         \o (IF column.nullable = FALSE /\ ~column.primaryKey
                             THEN <<D_not_null>> ELSE <<>>)
                         \o (IF column.default # <<>>
                             THEN <<D_default \o <<" ">> \o column.default[1]>> ELSE <<>>),
                         <<" ">>)

\* left.localeCompare(right) < 0, for names written in lower-case letters
RECURSIVE NameBefore(_, _)
NameBefore(left, right) ==
    IF left = <<>> THEN right # <<>>
    ELSE IF right = <<>> THEN FALSE
    ELSE IF Head(left) = Head(right) THEN NameBefore(Tail(left), Tail(right))
    ELSE \E i, j \in 1..26 : Lower[i] = Head(left) /\ Lower[j] = Head(right) /\ i < j

\* Object.keys(schema.tables).sort(localeCompare)
SortedTableNames(tableMap) ==
    CHOOSE names \in [1..Len(tableMap) -> {tableMap[i].key : i \in 1..Len(tableMap)}] :
        \A i, j \in 1..Len(tableMap) : i < j => NameBefore(names[i], names[j])

\* the block of one table
TableBlock(table) ==
    JoinWith(<<D_table \o <<" ">> \o table.name \o <<" ", "{">>>>
             \o [i \in 1..Len(table.columns) |-> RenderColumn(table.columns[i])]
             \o <<<<"}">>>>, <<"\n">>)

\* schemaToDsl
SchemaToDsl(tableMap) ==
    With(SortedTableNames(tableMap), LAMBDA tableNames :
    With([i \in 1..Len(tableNames) |-> TableBlock(Get(tableMap, tableNames[i]))], LAMBDA blocks :
        IF Len(blocks) = 0 THEN D_header \o <<"\n">>
        ELSE D_header \o <<"\n", "\n">> \o JoinWith(blocks, <<"\n", "\n">>) \o <<"\n">>))

\* schemaToDsl(result.schema)
CallSchemaToDsl ==
    /\ phase = "replayed"
    /\ dsl' = SchemaToDsl(replayTables)
    /\ phase' = "serialized"
    /\ UNCHANGED <<applied, replayTables, replayWarnings, reparsed, diffVars, splitVars,
                   parseVars, genVars, validateVars>>

-----------------------------------------------------------------------------
(* The DSL parser, parseSchema.  A parsed column carries nullable as <<>> when *)
(* the source leaves it unset, primaryKey and unique as FALSE then.  A throw   *)
(* is the result [ok |-> FALSE].                                              *)

Thrown == [ok |-> FALSE, tables |-> <<>>]

\* cleanLine
CleanLine(line) ==
    With({i \in 1..Len(line) : line[i] = "#" \/ (i < Len(line) /\ line[i] = "/" /\ line[i + 1] = "/")},
         LAMBDA found :
            IF found = {} THEN Trim(line)
            ELSE With(CHOOSE i \in found : \A j \in found : i <= j, LAMBDA commentIndex :
                    With(SubSeq(line, 1, commentIndex - 1), LAMBDA cut : Trim(cut))))

\* line.split(/\s+/).filter(t => t.length > 0), from position pos
RECURSIVE DslTokensFrom(_, _)
DslTokensFrom(line, pos) ==
    With(pos + RunLength("space", line, pos), LAMBDA start :
        IF start > Len(line) THEN <<>>
        ELSE With(start + RunLength("nonspace", line, start), LAMBDA end :
                <<SubSeq(line, start, end - 1)>> \o DslTokensFrom(line, end)))

\* parseForeignKey: <<>> for a throw
ParseForeignKey(fkRef) ==
    With(SplitText(fkRef, <<".">>, 1), LAMBDA parts :
        IF Len(parts) # 2 \/ parts[1] = <<>> \/ parts[2] = <<>> THEN <<>>
        ELSE <<[table |-> parts[1], column |-> parts[2]]>>)

\* the loop over the modifiers of parseColumn, from token i: <<>> for a throw
RECURSIVE DslModifiersFrom(_, _, _)
DslModifiersFrom(tokens, i, column) ==
    IF i > Len(tokens) THEN <<column>>
    ELSE IF tokens[i] = D_pk
    THEN DslModifiersFrom(tokens, i + 1, [column EXCEPT !.primaryKey = TRUE])
    ELSE IF tokens[i] = D_unique
    THEN DslModifiersFrom(tokens, i + 1, [column EXCEPT !.unique = TRUE])
    ELSE IF tokens[i] = D_nullable
    THEN DslModifiersFrom(tokens, i + 1, [column EXCEPT !.nullable = <<TRUE>>])
    ELSE IF tokens[i] = D_default
    THEN IF i + 1 > Len(tokens) THEN <<>>
         ELSE DslModifiersFrom(tokens, i + 2, [column EXCEPT !.default = <<tokens[i + 1]>>])
    ELSE IF tokens[i] = D_fk
    THEN IF i + 1 > Len(tokens) THEN <<>>
         ELSE With(ParseForeignKey(tokens[i + 1]), LAMBDA foreignKey :
                IF foreignKey = <<>> THEN <<>>
                ELSE DslModifiersFrom(tokens, i + 2,
                                      [column EXCEPT !.foreignKey = foreignKey]))
    ELSE <<>>

\* parseColumn: <<>> for a throw, <<column>> otherwise
ParseColumn(line) ==
    With(DslTokensFrom(line, 1), LAMBDA tokens :
        IF Len(tokens) < 2 THEN <<>>
        ELSE With(NormalizeColumnType(tokens[2]), LAMBDA colType :
            IF ~IsValidColumnType(colType) THEN <<>>
            ELSE DslModifiersFrom(tokens, 3,
                    [name |-> tokens[1], type |-> colType, primaryKey |-> FALSE,
                     unique |-> FALSE, nullable |-> <<>>, default |-> <<>>,
                     foreignKey |-> <<>>])))

\* firstLine.match(/^table\s+(\w+)\s*\{?\s*$/): <<>> for null, <<match[1]>> otherwise
TableHeader(firstLine) ==
    IF ~StartsWith(firstLine, D_table) THEN <<>>
    ELSE With(RunLength("space", firstLine, Len(D_table) + 1), LAMBDA gap :
         With(Len(D_table) + 1 + gap, LAMBDA start :
         With(IF start > Len(firstLine) THEN 0
              ELSE CHOOSE n \in 0..(Len(firstLine) - start + 1) :
                      /\ \A k \in start..(start + n - 1) : IsWordChar(firstLine[k])
                      /\ start + n <= Len(firstLine) => ~IsWordChar(firstLine[start + n]),
              LAMBDA length :
         With(start + length + RunLength("space", firstLine, start + length), LAMBDA brace :
         With(IF brace <= Len(firstLine) /\ firstLine[brace] = "{" THEN brace + 1 ELSE brace,
              LAMBDA after :
            IF gap = 0 \/ length = 0
               \/ after + RunLength("space", firstLine, after) <= Len(firstLine)
            THEN <<>>
            ELSE <<SubSeq(firstLine, start, start + length - 1)>>)))))

\* the while loop of parseTableBlock, from line lineIdx: the columns, whether the closing
\* brace was found, the line it was found at, and ok FALSE for a throw of parseColumn
RECURSIVE DslColumnsFrom(_, _, _)
DslColumnsFrom(lines, lineIdx, columns) ==
    IF lineIdx > Len(lines)
    THEN [ok |-> TRUE, closed |-> FALSE, columns |-> columns, lineIdx |-> lineIdx]
    ELSE With(CleanLine(lines[lineIdx]), LAMBDA cleaned :
        IF cleaned = <<>> THEN DslColumnsFrom(lines, lineIdx + 1, columns)
        ELSE IF cleaned = <<"}">>
        THEN [ok |-> TRUE, closed |-> TRUE, columns |-> columns, lineIdx |-> lineIdx]
        ELSE With(ParseColumn(cleaned), LAMBDA column :
            IF column = <<>>
            THEN [ok |-> FALSE, closed |-> FALSE, columns |-> columns, lineIdx |-> lineIdx]
            ELSE DslColumnsFrom(lines, lineIdx + 1, Append(columns, column[1]))))

\* parseTableBlock: the tables after it and the line it returns; ok FALSE for a throw
ParseTableBlock(lines, startLine, tableMap) ==
    With(CleanLine(lines[startLine]), LAMBDA firstLine :
    With(TableHeader(firstLine), LAMBDA match :
        IF match = <<>> THEN [ok |-> FALSE, tables |-> tableMap, lineIdx |-> startLine]
        ELSE IF HasKey(tableMap, match[1])
        THEN [ok |-> FALSE, tables |-> tableMap, lineIdx |-> startLine]
        ELSE With(DslColumnsFrom(lines, startLine + 1, <<>>), LAMBDA block :
            IF ~block.ok \/ ~block.closed
            THEN [ok |-> FALSE, tables |-> tableMap, lineIdx |-> startLine]
            ELSE [ok |-> TRUE,
                  tables |-> Append(tableMap,
                                    [key |-> match[1],
                                     value |-> [name |-> match[1],
                                                columns |-> block.columns]]),
                  lineIdx |-> block.lineIdx])))

\* the main loop of parseSchema, from line currentLine
RECURSIVE ParseSchemaFrom(_, _, _)
ParseSchemaFrom(lines, currentLine, tableMap) ==
    IF currentLine > Len(lines) THEN [ok |-> TRUE, tables |-> tableMap]
    ELSE With(CleanLine(lines[currentLine]), LAMBDA cleaned :
        IF cleaned = <<>> THEN ParseSchemaFrom(lines, currentLine + 1, tableMap)
        ELSE IF StartsWith(cleaned, D_table \o <<" ">>)
        THEN With(ParseTableBlock(lines, currentLine, tableMap), LAMBDA block :
                IF ~block.ok THEN Thrown
                ELSE ParseSchemaFrom(lines, block.lineIdx + 1, block.tables))
        ELSE Thrown)

\* parseSchema
ParseSchema(source) ==
    With(SplitText(source, <<"\n">>, 1), LAMBDA lines : ParseSchemaFrom(lines, 1, <<>>))

\* parseSchema(dsl)
CallParseSchema ==
    /\ phase = "serialized"
    /\ reparsed' = ParseSchema(dsl)
    /\ phase' = "reparsed"
    /\ UNCHANGED <<applied, replayTables, replayWarnings, dsl, diffVars, splitVars,
                   parseVars, genVars, validateVars>>

NextReplay ==
    \/ ReplayCreateTable \/ ReplayAddColumn \/ ReplayAlterColumnType
    \/ ReplaySetNotNull \/ ReplayDropNotNull \/ ReplaySetDefault \/ ReplayDropDefault
    \/ ReplayAddConstraint \/ ReplayDropConstraint \/ ReplayDropColumn \/ ReplayDropTable
    \/ ReturnApplyResult \/ CallSchemaToDsl \/ CallParseSchema

SpecReplay == InitReplay /\ [][NextReplay]_vars

-----------------------------------------------------------------------------
(* Properties of the replay *)

\* the loop of applySqlOps is about to go through an operation
InLoop == phase = "replay" /\ applied < Len(ops)

AlterKinds == {"ALTER_COLUMN_TYPE", "SET_NOT_NULL", "DROP_NOT_NULL", "SET_DEFAULT", "DROP_DEFAULT"}

\* the table and the column an operation names are in the table map
ColumnIsThere(tableMap, op) ==
    /\ HasKey(tableMap, op.table)
    /\ \E i \in 1..Len(Get(tableMap, op.table).columns) :
          Get(tableMap, op.table).columns[i].name = op.column

\* the attribute an operation of AlterKinds names, and the value it gives it
NamedAttribute(op) ==
    CASE op.kind = "ALTER_COLUMN_TYPE" -> [field |-> "type", value |-> op.toType]
      [] op.kind = "SET_NOT_NULL" -> [field |-> "nullable", value |-> FALSE]
      [] op.kind = "DROP_NOT_NULL" -> [field |-> "nullable", value |-> TRUE]
      [] op.kind = "SET_DEFAULT" -> [field |-> "default", value |-> <<op.expr>>]
      [] op.kind = "DROP_DEFAULT" -> [field |-> "default", value |-> <<>>]

\* after differs from before in nothing but the named attribute of the one column the
\* operation names, which has the operation's value
OnlyNamedAttributeChanged(before, after, op) ==
    /\ Len(after) = Len(before)
    /\ \A t \in 1..Len(before) :
          /\ after[t].key = before[t].key
          /\ before[t].key # op.table => after[t] = before[t]
          /\ before[t].key = op.table =>
                /\ after[t].value.name = before[t].value.name
                /\ after[t].value.primaryKey = before[t].value.primaryKey
                /\ Len(after[t].value.columns) = Len(before[t].value.columns)
                /\ \A i \in 1..Len(before[t].value.columns) :
                      LET old == before[t].value.columns[i]
                          new == after[t].value.columns[i]
                      IN  IF old.name # op.column THEN new = old
                          ELSE /\ new[NamedAttribute(op).field] = NamedAttribute(op).value
                               /\ \A f \in DOMAIN old \ {NamedAttribute(op).field} :
                                     new[f] = old[f]

\* C19: an ALTER_COLUMN_TYPE, SET_NOT_NULL, DROP_NOT_NULL, SET_DEFAULT or DROP_DEFAULT
\* whose table or column is not in the table map when the loop reaches it leaves the
\* table map and the warnings as they are; when the target is there, only the named
\* attribute of the named column changes, and no warning is added.
C19_UnknownTargetsIgnored ==
    [][(InLoop /\ Op.kind \in AlterKinds) =>
          /\ replayWarnings' = replayWarnings
          /\ IF ColumnIsThere(replayTables, Op)
             THEN OnlyNamedAttributeChanged(replayTables, replayTables', Op)
             ELSE replayTables' = replayTables]_vars

\* the loop went through ALTER COLUMN x TYPE bigint before table a was there, then
\* through CREATE TABLE a and SET NOT NULL on a.x: x has the type it was created with
\* and is not nullable
C19_Witness ==
    /\ applied = 3
    /\ ops[1].kind = "ALTER_COLUMN_TYPE" /\ ops[2].kind = "CREATE_TABLE"
    /\ ops[3].kind = "SET_NOT_NULL"
    /\ ops[1].table = ops[2].table /\ ops[3].table = ops[2].table
    /\ ops[2].columns[1].name = ops[3].column /\ ops[2].columns[1].nullable
    /\ Get(replayTables, ops[2].table).columns[1].type = ops[2].columns[1].type
    /\ Get(replayTables, ops[2].table).columns[1].type # ops[1].toType
    /\ ~Get(replayTables, ops[2].table).columns[1].nullable
    /\ replayWarnings = <<>>

\* the constraint is over more than one column
IsWide(constraint) == Len(constraint.columns) > 1

\* C18: when a CREATE_TABLE or ADD_CONSTRAINT operation carries a PRIMARY KEY or UNIQUE
\* constraint over more than one column, applySqlOps adds exactly one warning for that
\* constraint, sets no primaryKey or unique flag and no table primaryKey from it, applies
\* the rest of the operation (the table is there with the operation's columns and their
\* own flags) and goes on to the next operation.
C18_UnsupportedConstraintsWarn ==
    [][/\ (InLoop /\ Op.kind = "ADD_CONSTRAINT" /\ IsWide(Op.constraint)) =>
             /\ Len(replayWarnings') = Len(replayWarnings) + 1
             /\ SubSeq(replayWarnings', 1, Len(replayWarnings)) = replayWarnings
             /\ replayTables' = replayTables
             /\ applied' = applied + 1
       /\ (InLoop /\ Op.kind = "CREATE_TABLE"
             /\ \A n \in 1..Len(Op.constraints) : IsWide(Op.constraints[n])) =>
             /\ Len(replayWarnings') = Len(replayWarnings) + Len(Op.constraints)
             /\ SubSeq(replayWarnings', 1, Len(replayWarnings)) = replayWarnings
             /\ HasKey(replayTables', Op.table)
             /\ LET table == Get(replayTables', Op.table)
                IN  /\ table.columns = [i \in 1..Len(Op.columns) |-> ToSchemaColumn(Op.columns[i])]
                    /\ table.primaryKey # <<>> =>
                          \E i \in 1..Len(Op.columns) :
                              Op.columns[i].primaryKey /\ Op.columns[i].name = table.primaryKey[1]
             /\ applied' = applied + 1]_vars

IsPrimaryKeyName(name) == EndsWith(name, N_pkey) \/ StartsWith(name, N_pk)
IsUniqueName(name) == EndsWith(name, N_key) \/ StartsWith(name, N_uq)

\* C20: after DROP_CONSTRAINT on a table of the table map, a name that ends in _pkey or
\* starts with pk_ leaves the table without primary key (primaryKey unset, no column
\* flagged primaryKey) and the unique flags as they were; otherwise a name that ends in
\* _key or starts with uq_ leaves no column unique and the primary key as it was; any
\* other name leaves the table as it was.
C20_DropConstraintByName ==
    [][(InLoop /\ Op.kind = "DROP_CONSTRAINT" /\ HasKey(replayTables, Op.table)) =>
          /\ HasKey(replayTables', Op.table)
          /\ LET before == Get(replayTables, Op.table)
                 after == Get(replayTables', Op.table)
                 Same(field) ==
                     /\ Len(after.columns) = Len(before.columns)
                     /\ \A i \in 1..Len(before.columns) :
                           after.columns[i][field] = before.columns[i][field]
             IN  IF IsPrimaryKeyName(Op.name)
                 THEN /\ after.primaryKey = <<>>
                      /\ \A i \in 1..Len(after.columns) : ~after.columns[i].primaryKey
                      /\ Same("unique")
                 ELSE IF IsUniqueName(Op.name)
                 THEN /\ \A i \in 1..Len(after.columns) : ~after.columns[i].unique
                      /\ after.primaryKey = before.primaryKey
                      /\ Same("primaryKey")
                 ELSE after = before]_vars

\* the statements of the round trip's subset: CREATE TABLE, ADD COLUMN, ALTER COLUMN TYPE,
\* SET and DROP NOT NULL, SET and DROP DEFAULT, and ADD CONSTRAINT over one column
InSubset(op) ==
    \/ op.kind \in {"ADD_COLUMN"} \cup AlterKinds
    \/ op.kind = "CREATE_TABLE" /\ \A n \in 1..Len(op.constraints) : ~IsWide(op.constraints[n])
    \/ op.kind = "ADD_CONSTRAINT" /\ ~IsWide(op.constraint)

\* a column read back from the DSL is the replayed column: name, type, primary key,
\* unique and default as replayed, and nullable unless it is the primary key or was
\* read as not nullable
SameColumn(read, replayed) ==
    /\ read.name = replayed.name
    /\ read.type = replayed.type
    /\ read.primaryKey = replayed.primaryKey
    /\ read.unique = replayed.unique
    /\ read.default = replayed.default
    /\ (IF read.primaryKey THEN FALSE
        ELSE IF read.nullable = <<>> THEN TRUE ELSE read.nullable[1]) = replayed.nullable

\* C11: for a migration of the subset, the DSL parser reads the text schemaToDsl wrote
\* for the replayed schema and gives the same tables, each with the same columns in the
\* same order and the same attributes.
C11_ImportRoundTrip ==
    (phase = "reparsed" /\ \A n \in 1..Len(ops) : InSubset(ops[n])) =>
        /\ reparsed.ok
        /\ {reparsed.tables[t].key : t \in 1..Len(reparsed.tables)}
              = {replayTables[t].key : t \in 1..Len(replayTables)}
        /\ \A t \in 1..Len(reparsed.tables) :
              LET read == reparsed.tables[t].value
                  replayed == Get(replayTables, reparsed.tables[t].key)
              IN  /\ read.name = replayed.name
                  /\ Len(read.columns) = Len(replayed.columns)
                  /\ \A i \in 1..Len(read.columns) :
                        SameColumn(read.columns[i], replayed.columns[i])

-----------------------------------------------------------------------------
(* The lexical contexts of the splitter *)

\* the contexts the scan is in
ActiveContexts ==
    {c \in {"single", "double", "line", "block", "dollar"} :
        \/ c = "single" /\ inSingleQuote
        \/ c = "double" /\ inDoubleQuote
        \/ c = "line" /\ inLineComment
        \/ c = "block" /\ inBlockComment
        \/ c = "dollar" /\ dollarTag # NoTag}

\* C30: at every step of the scan at most one of the five contexts (single-quoted
\* string, double-quoted identifier, line comment, block comment, dollar-quoted block)
\* is active, and a step that enters a context starts in the default context.
C30_ContextsExclusive ==
    /\ [](Cardinality(ActiveContexts) <= 1)
    /\ [][ActiveContexts' \ ActiveContexts # {} => ActiveContexts = {}]_vars

\* the scan is inside a double-quoted identifier and has just gone over a single quote,
\* or a dollar sign, which opened nothing
C30_Witness ==
    /\ phase = "scan" /\ index > 2
    /\ ActiveContexts = {"double"}
    /\ sql[index - 1] \in {"'", "$"}
    /\ sql[index - 2] \in {"'", "-", "*", "\""}

-----------------------------------------------------------------------------
(* The replayed schema: primary keys and the tables that exist *)

\* the columns of a table that are flagged primaryKey
FlaggedColumns(table) ==
    {i \in 1..Len(table.columns) : table.columns[i].primaryKey}

\* C28: after applySqlOps has gone through a sequence of operations, every table of the
\* reconstructed schema has at most one column flagged primaryKey, and the table's
\* primaryKey field is set exactly when there is such a column, and names it.
C28_PrimaryKeyBookkeeping ==
    phase = "replayed" =>
        \A t \in 1..Len(replayTables) :
            LET table == replayTables[t].value
            IN  /\ Cardinality(FlaggedColumns(table)) <= 1
                /\ table.primaryKey # <<>> <=> FlaggedColumns(table) # {}
                /\ table.primaryKey # <<>> =>
                      \A i \in FlaggedColumns(table) :
                          table.columns[i].name = table.primaryKey[1]

\* the names of the tables the operations name
NamedTables == {ops[n].table : n \in 1..Len(ops)}

\* C29: a table that is not in the table map stays out of it after any operation other
\* than CREATE_TABLE that names it, so the reconstructed schema holds a table exactly
\* when the sequence has a CREATE_TABLE for it with no DROP_TABLE for it afterwards.
C29_OnlyCreateTableCreates ==
    /\ [][(InLoop /\ Op.kind # "CREATE_TABLE" /\ ~HasKey(replayTables, Op.table))
             => ~HasKey(replayTables', Op.table)]_vars
    /\ [](phase = "replayed" =>
            \A name \in NamedTables :
                HasKey(replayTables, name) <=>
                    \E n \in 1..Len(ops) :
                        /\ ops[n].kind = "CREATE_TABLE" /\ ops[n].table = name
                        /\ \A later \in (n + 1)..Len(ops) :
                              ~(ops[later].kind = "DROP_TABLE" /\ ops[later].table = name))

-----------------------------------------------------------------------------
(* C24: primary-key constraint operations *)

\* the resolved primary key, stated on the names of the flagged columns in order:
\* the explicit field, else the first flagged column, else none
ResolvedKey(explicit, flaggedNames) ==
    IF explicit # Null THEN explicit
    ELSE IF flaggedNames # <<>> THEN flaggedNames[1] ELSE Null

P_old(t) ==
    LET table == Get(oldState.tables, t)
    IN  ResolvedKey(table.primaryKey,
                    FlatMap(LAMBDA e : IF e.value.primaryKey THEN <<e.key>> ELSE <<>>,
                            table.columns))

P_new(t) ==
    LET table == Get(newSchema.tables, t)
    IN  ResolvedKey(table.primaryKey,
                    FlatMap(LAMBDA c : IF c.primaryKey THEN <<c.name>> ELSE <<>>,
                            table.columns))

InBoth == {t \in Range(ObjectKeys(newSchema.tables)) : HasKey(oldState.tables, t)}

KeyOps(k, t) == {i \in Positions(operations, k) : operations[i].tableName = t}

\* C24: for each table of both old and new, drop_primary_key_constraint is emitted
\* iff the old resolved key exists and differs from the new one,
\* add_primary_key_constraint iff the new resolved key exists and differs from the
\* old one, naming the new key; at most one of each per table.
C24_PrimaryKeyOperations ==
    outcome = "diffed" =>
        \A t \in InBoth :
            LET drops == KeyOps("drop_primary_key_constraint", t)
                adds == KeyOps("add_primary_key_constraint", t)
            IN  /\ Cardinality(drops) = IF P_old(t) # Null /\ P_old(t) # P_new(t) THEN 1 ELSE 0
                /\ Cardinality(adds) = IF P_new(t) # Null /\ P_old(t) # P_new(t) THEN 1 ELSE 0
                /\ \A i \in adds : operations[i].columnName = P_new(t)

\* the explicit field of the new table names another column than the first flagged
\* column of the old table: one drop, one add naming the explicit key
C24_Witness ==
    /\ outcome = "diffed"
    /\ \E t \in InBoth :
        /\ Get(oldState.tables, t).primaryKey = Null
        /\ Get(newSchema.tables, t).primaryKey # Null
        /\ P_old(t) # Null /\ P_old(t) # P_new(t)
        /\ KeyOps("drop_primary_key_constraint", t) # {}
        /\ KeyOps("add_primary_key_constraint", t) # {}

-----------------------------------------------------------------------------
(* C26: no primary key is established twice *)

\* C26: the operations never hold both an add_column whose column is flagged
\* primaryKey and an add_primary_key_constraint for the same table.
C26_NoSecondPrimaryKey ==
    (outcome = "diffed" /\ ValidateSchema(newSchema)) =>
        \A i \in Positions(operations, "add_column") :
            operations[i].column.primaryKey =>
                KeyOps("add_primary_key_constraint", operations[i].tableName) = {}

-----------------------------------------------------------------------------
(* C27: the diff is sound and complete for structure *)

\* the database after the operations of opList, applied in order from db
RECURSIVE ApplyAll(_, _)
ApplyAll(db, opList) ==
    IF opList = <<>> THEN db ELSE ApplyAll(ApplyOp(db, Head(opList)), Tail(opList))

\* the snapshot db has the tables of schema, each with the columns of schema's
\* table, and for each the same normalised type, unique flag and resolved key
SameStructure(db, schema) ==
    /\ Range(ObjectKeys(db.tables)) = Range(ObjectKeys(schema.tables))
    /\ Len(db.tables) = Len(schema.tables)
    /\ \A t \in Range(ObjectKeys(schema.tables)) :
        LET have == Get(db.tables, t)
            want == Get(schema.tables, t)
        IN  /\ Range(ObjectKeys(have.columns)) = {c.name : c \in Range(want.columns)}
            /\ Len(have.columns) = Len(want.columns)
            /\ \A c \in Range(want.columns) :
                  /\ HasKey(have.columns, c.name)
                  /\ NormalizeColumnType(Get(have.columns, c.name).type)
                        = NormalizeColumnType(c.type)
                  /\ Get(have.columns, c.name).unique = c.unique
            /\ ResolveStatePrimaryKey(have) = ResolveSchemaPrimaryKey(want)

\* C27: applying the operations of diffSchemas(old, new) in order to old yields a
\* snapshot with exactly the tables of new, exactly the columns of each, and the
\* same normalised type, unique flag and resolved primary key as new.
C27_DiffSoundAndComplete ==
    outcome = "diffed" => SameStructure(ApplyAll(oldState, operations), newSchema)

-----------------------------------------------------------------------------
(* Column definitions: parseMigrationSql on statements that define one column *)
(* with up to MaxGroups constraints, in every order.                          *)

MaxGroups == 3

\* ALTER TABLE t ADD COLUMN x int
Cd_AddColumn == <<"A", "L", "T", "E", "R", " ", "T", "A", "B", "L", "E", " ", "t", " ", "A", "D", "D", " ", "C", "O", "L", "U", "M", "N", " ", "x", " ", "i", "n", "t">>
\* CREATE TABLE t (x int
Cd_CreateTable == <<"C", "R", "E", "A", "T", "E", " ", "T", "A", "B", "L", "E", " ", "t", " ", "(", "x", " ", "i", "n", "t">>
Cd_close == <<")">>

Cg_primary_key == <<" ", "P", "R", "I", "M", "A", "R", "Y", " ", "K", "E", "Y">>
Cg_primary_key_lower == <<" ", "p", "r", "i", "m", "a", "r", "y", " ", "k", "e", "y">>
Cg_unique == <<" ", "U", "N", "I", "Q", "U", "E">>
Cg_not_null == <<" ", "N", "O", "T", " ", "N", "U", "L", "L">>
Cg_null == <<" ", "N", "U", "L", "L">>
Cg_default == <<" ", "D", "E", "F", "A", "U", "L", "T", " ", "0">>
ConstraintGroups ==
    {Cg_primary_key, Cg_primary_key_lower, Cg_unique, Cg_not_null, Cg_null, Cg_default}

\* the lists of at most MaxGroups different constraints
GroupLists ==
    UNION {{s \in [1..k -> ConstraintGroups] : \A i, j \in 1..k : s[i] = s[j] => i = j}
              : k \in 0..MaxGroups}

RECURSIVE Concat(_)
Concat(list) == IF list = <<>> THEN <<>> ELSE Head(list) \o Concat(Tail(list))

ColumnStatements ==
    {Cd_AddColumn \o Concat(groups) : groups \in GroupLists}
        \cup {Cd_CreateTable \o Concat(groups) \o Cd_close : groups \in GroupLists}

\* the statements of a migration, as splitSqlStatements returned them: one column
\* statement, alone or after a statement that is only a comment
ColumnMigrations ==
    {<<s>> : s \in ColumnStatements} \cup {<<St_OnlyComment, s>> : s \in ColumnStatements}

RECURSIVE JoinStatements(_)
JoinStatements(list) ==
    IF list = <<>> THEN <<>> ELSE Head(list) \o <<";">> \o JoinStatements(Tail(list))

\* splitSqlStatements has returned, parseMigrationSql starts its loop
InitColumn ==
    /\ \E list \in ColumnMigrations :
          /\ sql = JoinStatements(list)
          /\ statements = list
    /\ index = Len(sql) + 1
    /\ current = <<>>
    /\ inSingleQuote = FALSE /\ inDoubleQuote = FALSE
    /\ inLineComment = FALSE /\ inBlockComment = FALSE
    /\ dollarTag = NoTag
    /\ ParseStart /\ ReplayIdle /\ GenIdle /\ ValidateIdle /\ DiffIdle
    /\ phase = "done"

NextColumn == SkipEmptyStatement \/ ParseStatement \/ ReturnParseResult

SpecColumn == InitColumn /\ [][NextColumn]_vars

-----------------------------------------------------------------------------
(* C25: PRIMARY KEY forces non-nullable in parsed columns *)

Mentions(stmt, group) ==
    \E i \in 1..Len(stmt) :
        i + Len(group) - 1 <= Len(stmt) /\ SubSeq(stmt, i, i + Len(group) - 1) = group

\* the columns parseColumnDefinition returned for the operation
ParsedColumns(op) ==
    IF op.kind = "ADD_COLUMN" THEN <<op.column>>
    ELSE IF op.kind = "CREATE_TABLE" THEN op.columns ELSE <<>>

\* C25: a column definition with PRIMARY KEY among its constraints, in any position
\* and with any other constraints, is parsed with primaryKey = true and
\* nullable = false.
C25_PrimaryKeyForcesNotNull ==
    phase = "parsed" =>
        LET stmt == statements[Len(statements)]
        IN  (Mentions(stmt, Cg_primary_key) \/ Mentions(stmt, Cg_primary_key_lower)) =>
                /\ Len(ops) = 1
                /\ Len(ParsedColumns(ops[1])) = 1
                /\ ParsedColumns(ops[1])[1].primaryKey
                /\ ~ParsedColumns(ops[1])[1].nullable

-----------------------------------------------------------------------------
(* The validate command: core/validate.ts and commands/validate.ts *)

DigitChars == <<"0","1","2","3","4","5","6","7","8","9">>

\* Number(text) for a text of digits
RECURSIVE NumberOf(_)
NumberOf(text) ==
    IF text = <<>> THEN 0
    ELSE 10 * NumberOf(SubSeq(text, 1, Len(text) - 1))
            + ((CHOOSE d \in 1..10 : DigitChars[d] = text[Len(text)]) - 1)

\* parseVarcharLength: <<>> for null, <<n>> otherwise
ParseVarcharLength(type) ==
    With(NormalizeColumnType(type), LAMBDA s :
        IF IsVarcharN(s) THEN <<NumberOf(SubSeq(s, Len(T_varchar) + 2, Len(s) - 1))>>
        ELSE <<>>)

\* parseNumericType: <<>> for null, <<[precision, scale]>> otherwise
ParseNumericType(type) ==
    With(NormalizeColumnType(type), LAMBDA s :
        IF ~IsNumericPS(s) THEN <<>>
        ELSE LET comma == CHOOSE k \in 1..Len(s) : s[k] = ","
             IN  <<[precision |-> NumberOf(SubSeq(s, 9, comma - 1)),
                    scale |-> NumberOf(SubSeq(s, comma + 1, Len(s) - 1))]>>)

\* classifyTypeChange; the message is carried by its fixed part
ClassifyTypeChange(from, to) ==
    LET fromType == NormalizeColumnType(from)
        toType == NormalizeColumnType(to)
        fromVarcharLength == ParseVarcharLength(fromType)
        toVarcharLength == ParseVarcharLength(toType)
        fromNumeric == ParseNumericType(fromType)
        toNumeric == ParseNumericType(toType)
    IN  IF (fromType = T_uuid \/ toType = T_uuid) /\ fromType # toType
        THEN [severity |-> "error", message |-> "likely incompatible cast"]
        ELSE IF fromType = T_int /\ toType = T_bigint
        THEN [severity |-> "warning", message |-> "Type widened from int to bigint"]
        ELSE IF fromType = T_bigint /\ toType = T_int
        THEN [severity |-> "error", message |-> "Type narrowed from bigint to int"]
        ELSE IF fromType = T_text /\ toVarcharLength # <<>>
        THEN [severity |-> "error", message |-> "may truncate existing values"]
        ELSE IF fromVarcharLength # <<>> /\ toType = T_text
        THEN [severity |-> "warning", message |-> "Type widened from varchar(n) to text"]
        ELSE IF fromVarcharLength # <<>> /\ toVarcharLength # <<>>
        THEN IF toVarcharLength[1] >= fromVarcharLength[1]
             THEN [severity |-> "warning", message |-> "Type widened"]
             ELSE [severity |-> "error", message |-> "Type narrowed"]
        ELSE IF fromNumeric # <<>> /\ toNumeric # <<>>
                /\ fromNumeric[1].scale = toNumeric[1].scale
        THEN IF toNumeric[1].precision >= fromNumeric[1].precision
             THEN [severity |-> "warning", message |-> "Type widened"]
             ELSE [severity |-> "error", message |-> "Type narrowed"]
        ELSE [severity |-> "warning", message |-> "compatibility unknown"]

\* the finding of one operation of the diff, <<>> for an operation without one
FindingOf(operation) ==
    CASE operation.kind = "drop_table" ->
            <<[severity |-> "error", code |-> "DROP_TABLE", table |-> operation.tableName,
               column |-> <<>>, from |-> <<>>, to |-> <<>>, message |-> "Table removed"]>>
      [] operation.kind = "drop_column" ->
            <<[severity |-> "error", code |-> "DROP_COLUMN", table |-> operation.tableName,
               column |-> <<operation.columnName>>, from |-> <<>>, to |-> <<>>,
               message |-> "Column removed"]>>
      [] operation.kind = "column_type_changed" ->
            With(ClassifyTypeChange(operation.fromType, operation.toType),
                 LAMBDA classification :
                    <<[severity |-> classification.severity, code |-> "ALTER_COLUMN_TYPE",
                       table |-> operation.tableName,
                       column |-> <<operation.columnName>>,
                       from |-> <<NormalizeColumnType(operation.fromType)>>,
                       to |-> <<NormalizeColumnType(operation.toType)>>,
                       message |-> classification.message]>>)
      [] operation.kind = "column_nullability_changed" ->
            IF operation.from /\ ~operation.to
            THEN <<[severity |-> "warning", code |-> "SET_NOT_NULL",
                    table |-> operation.tableName, column |-> <<operation.columnName>>,
                    from |-> <<>>, to |-> <<>>, message |-> "Column changed to NOT NULL"]>>
            ELSE <<>>
      [] OTHER -> <<>>

\* validateSchemaChanges
ValidateSchemaChanges(previousState, currentSchema) ==
    With(DiffSchemas(previousState, currentSchema), LAMBDA diff :
        FlatMap(LAMBDA operation : FindingOf(operation), diff))

\* ({ severity, ...finding }) => finding
WithoutSeverity(finding) ==
    [code |-> finding.code, table |-> finding.table, column |-> finding.column,
     from |-> finding.from, to |-> finding.to, message |-> finding.message]

\* toValidationReport
ToValidationReport(list) ==
    LET errorList == Filter(LAMBDA finding : finding.severity = "error", list)
        warningList == Filter(LAMBDA finding : finding.severity = "warning", list)
    IN  [hasErrors |-> Len(errorList) > 0,
         hasWarnings |-> Len(warningList) > 0,
         errors |-> [i \in 1..Len(errorList) |-> WithoutSeverity(errorList[i])],
         warnings |-> [i \in 1..Len(warningList) |-> WithoutSeverity(warningList[i])]]

-----------------------------------------------------------------------------
(* The validate specification: one run of runValidate on a snapshot and a schema *)

\* one table "a", one column "x", the type changed between two of ClassTypes
T_varchar_10 == <<"v","a","r","c","h","a","r","(","1","0",")">>
T_varchar_20 == <<"v","a","r","c","h","a","r","(","2","0",")">>
T_numeric_12_2 == <<"n","u","m","e","r","i","c","(","1","2",",","2",")">>
T_numeric_10_4 == <<"n","u","m","e","r","i","c","(","1","0",",","4",")">>
ClassTypes ==
    {T_uuid, T_int, T_bigint, T_text, T_varchar_10, T_varchar_20, T_numeric,
     T_numeric_12_2, T_numeric_10_4, T_date, T_INT_upper}
ClassSchemas ==
    {SchemaOf(<<[name |-> "a", columns |-> <<Column("x", ty, FALSE, FALSE, <<>>)>>,
                 primaryKey |-> Null]>>) : ty \in ClassTypes}
ClassPairs == {[old |-> SchemaToState(o), new |-> n] : o \in ClassSchemas, n \in ClassSchemas}

\* schemas as parseSchema or an import can hand them over, valid or not: table "a"
\* with up to MaxStructCols columns, names repeated or not, a type that may be
\* unknown, foreign keys that may dangle, and a table-level primary key that may
\* name a column the table lacks; a table "b" may stand beside it
MaxStructCols == 2
T_blob == <<"b","l","o","b">>
StructForeignKeys ==
    {<<>>, <<[table |-> "b", column |-> "x"]>>, <<[table |-> "b", column |-> "z"]>>,
     <<[table |-> "a", column |-> "y"]>>}
StructColumns ==
    {Column(n, ty, pk, FALSE, fk) :
        n \in {"x", "y"}, ty \in {T_int, T_blob}, pk \in BOOLEAN, fk \in StructForeignKeys}
StructTables ==
    {[name |-> "a", columns |-> cs, primaryKey |-> pk] :
        cs \in UNION {[1..k -> StructColumns] : k \in 0..MaxStructCols},
        pk \in {Null, "x", "z"}}
StructOther ==
    [name |-> "b", columns |-> <<Column("x", T_int, FALSE, FALSE, <<>>)>>, primaryKey |-> Null]
StructSchemas ==
    {SchemaOf(<<a>>) : a \in StructTables} \cup {SchemaOf(<<a, StructOther>>) : a \in StructTables}
StructPairs ==
    {[old |-> SchemaToState(SchemaOf(<<>>)), new |-> n] : n \in StructSchemas}

ValidateInputs == ClassPairs \cup MultiPairs \cup RichPairs \cup StructPairs

InitValidate ==
    /\ \E in \in ValidateInputs : oldState = in.old /\ newSchema = in.new
    /\ operations = <<>>
    /\ outcome = "start"
    /\ runs = 0
    /\ migrations = 0
    /\ sql = <<>> /\ SplitStart /\ ParseStart /\ ReplayIdle /\ GenIdle /\ ValidateIdle
    /\ phase = "idle"

\* a variant for comparison: any finding, warnings included, fails the run
ExitCodeOfAnyFinding(json, list, rep) ==
    IF Len(list) = 0 THEN 0 ELSE 1

\* process.exitCode at the end of runValidate, with and without --json
ExitCodeOf(json, list, rep) ==
    IF json THEN (IF rep.hasErrors THEN 1 ELSE 0)
    ELSE IF Len(list) = 0 THEN 0
    ELSE (IF rep.hasErrors THEN 1 ELSE 0)

\* runValidate: validate the schema (a failure is thrown as SchemaValidationError),
\* load the state, collect the findings, build the report, set the exit code
RunValidate ==
    /\ outcome = "start"
    /\ runs' = runs + 1
    /\ UNCHANGED <<oldState, newSchema, operations, migrations, splitVars, parseVars,
                   replayVars, genVars, phase>>
    /\ IF ~ValidateSchema(newSchema)
       THEN /\ outcome' = "invalid"
            /\ UNCHANGED validateVars
       ELSE \E json \in BOOLEAN :
            \E list \in {ValidateSchemaChanges(oldState, newSchema)} :
            \E rep \in {ToValidationReport(list)} :
                /\ findings' = list
                /\ report' = <<rep>>
                /\ exitCode' = <<ExitCodeOf(json, list, rep)>>
                /\ outcome' = "validated"

NextValidate == RunValidate

SpecValidate == InitValidate /\ [][NextValidate]_vars

-----------------------------------------------------------------------------
(* C23: validate exit status *)

ErrorFindings == {i \in 1..Len(findings) : findings[i].severity = "error"}
WarningFindings == {i \in 1..Len(findings) : findings[i].severity = "warning"}

\* the operations of the diff of the run that remove a table or a column
Removals ==
    {op \in Range(DiffSchemas(oldState, newSchema)) : op.kind \in {"drop_table", "drop_column"}}

ReportedAsError(op) ==
    \E i \in ErrorFindings :
        /\ findings[i].table = op.tableName
        /\ IF op.kind = "drop_table"
           THEN findings[i].code = "DROP_TABLE" /\ findings[i].column = <<>>
           ELSE findings[i].code = "DROP_COLUMN" /\ findings[i].column = <<op.columnName>>

\* C23: a run of runValidate that returns ends with exit code 1 iff some finding
\* has severity error and with 0 otherwise; every table and every column the diff
\* removes has a finding of severity error; the report holds each finding in
\* exactly one of errors and warnings.
C23_ValidateExitStatus ==
    outcome = "validated" =>
        /\ exitCode = <<IF ErrorFindings # {} THEN 1 ELSE 0>>
        /\ \A op \in Removals : ReportedAsError(op)
        /\ ErrorFindings \cup WarningFindings = 1..Len(findings)
        /\ Len(report[1].errors) = Cardinality(ErrorFindings)
        /\ Len(report[1].warnings) = Cardinality(WarningFindings)
        /\ \A i \in ErrorFindings : WithoutSeverity(findings[i]) \in Range(report[1].errors)
        /\ \A i \in WarningFindings :
              WithoutSeverity(findings[i]) \in Range(report[1].warnings)

\* a run that found a removed column and a widened type: exit code 1, one error
\* and one warning in the report
C23_Witness ==
    /\ outcome = "validated"
    /\ exitCode = <<1>>
    /\ \E i \in ErrorFindings : findings[i].code = "DROP_COLUMN"
    /\ \E i \in WarningFindings : findings[i].code = "ALTER_COLUMN_TYPE"
    /\ Len(report[1].errors) = 1 /\ Len(report[1].warnings) = 1

-----------------------------------------------------------------------------
(* C22: structural validation *)

ColumnNamesOf(table) == {c.name : c \in Range(table.columns)}

\* the five defects of a table, stated on the schema
HasDuplicateColumn(table) ==
    \E i, j \in 1..Len(table.columns) : i # j /\ table.columns[i].name = table.columns[j].name
HasSeveralPrimaryKeys(table) ==
    \E i, j \in 1..Len(table.columns) :
        i # j /\ table.columns[i].primaryKey /\ table.columns[j].primaryKey
HasUnsupportedType(table) ==
    \E c \in Range(table.columns) : ~IsValidColumnType(c.type)
HasDanglingForeignKey(table, schema) ==
    \E c \in Range(table.columns) :
        /\ c.foreignKey # <<>>
        /\ \/ ~HasKey(schema.tables, c.foreignKey[1].table)
           \/ c.foreignKey[1].column
                 \notin ColumnNamesOf(Get(schema.tables, c.foreignKey[1].table))
HasDanglingPrimaryKey(table) ==
    table.primaryKey # Null /\ table.primaryKey \notin ColumnNamesOf(table)

\* C22: validateSchema raises an error iff some table has two columns of the same
\* name, more than one column flagged primaryKey, a column of an unsupported type,
\* a foreign key naming a table or column that does not exist, or a table-level
\* primaryKey naming a column the table lacks.
C22_StructuralValidation ==
    outcome \in {"invalid", "validated"} =>
        (outcome = "invalid" <=>
            \E i \in 1..Len(newSchema.tables) :
                LET table == newSchema.tables[i].value
                IN  \/ HasDuplicateColumn(table)
                    \/ HasSeveralPrimaryKeys(table)
                    \/ HasUnsupportedType(table)
                    \/ HasDanglingForeignKey(table, newSchema)
                    \/ HasDanglingPrimaryKey(table))

-----------------------------------------------------------------------------
(* The generate command step by step: commands/generate.ts runGenerate, one   *)
(* action per awaited step, and the handler cli.ts wraps around it.  outcome  *)
(* is the position of the run.                                                *)

InitGenerate ==
    /\ \E in \in DiffInputs : oldState = in.old /\ newSchema = in.new
    /\ operations = <<>>
    /\ outcome = "start"
    /\ runs = 0
    /\ migrations = 0
    /\ sql = <<>> /\ SplitStart /\ ParseStart /\ ReplayIdle /\ GenIdle /\ ValidateIdle
    /\ phase = "idle"

GenerateStep(from, to) ==
    /\ outcome = from
    /\ outcome' = to
    /\ UNCHANGED <<newSchema, splitVars, parseVars, replayVars, genVars, phase>>

\* parseSchema, validateSchema: a failure is thrown as SchemaValidationError
GenerateValidate ==
    /\ GenerateStep("start", IF ValidateSchema(newSchema) THEN "validated" ELSE "invalid")
    /\ runs' = runs + 1
    /\ UNCHANGED <<oldState, operations, migrations, validateVars>>

\* loadState, diffSchemas; 'No changes detected' and return when the diff is empty
GenerateDiff ==
    /\ \E diff \in {DiffSchemas(oldState, newSchema)} :
          /\ GenerateStep("validated", IF diff = <<>> THEN "nochange" ELSE "diffed")
          /\ operations' = diff
    /\ UNCHANGED <<oldState, runs, migrations, validateVars>>

\* generateSql, ensureDir, writeTextFile(migrationPath, sql)
GenerateWriteMigration ==
    /\ GenerateStep("diffed", "written")
    /\ migrations' = migrations + 1
    /\ UNCHANGED <<oldState, operations, runs, validateVars>>

\* a variant for comparison: the state is saved as soon as the diff is known
GenerateSaveStateBeforeWrite ==
    /\ GenerateStep("diffed", "generated")
    /\ oldState' = SchemaToState(newSchema)
    /\ UNCHANGED <<operations, runs, migrations, validateVars>>

\* schemaToState, saveState(statePath, nextState)
GenerateSaveState ==
    /\ GenerateStep("written", "generated")
    /\ oldState' = SchemaToState(newSchema)
    /\ UNCHANGED <<operations, runs, migrations, validateVars>>

\* ensureDir, writeTextFile or saveState rejects: the file is not written
GenerateWriteFails ==
    /\ \E at \in {"diffed", "written"} : GenerateStep(at, "ioerror")
    /\ UNCHANGED <<oldState, operations, runs, migrations, validateVars>>

\* handleError: exit code 2 for a SchemaValidationError, 1 for any other error
HandleError ==
    /\ outcome \in {"invalid", "ioerror"}
    /\ exitCode = <<>>
    /\ exitCode' = <<IF outcome = "invalid" THEN 2 ELSE 1>>
    /\ UNCHANGED <<diffVars, findings, report, splitVars, parseVars, replayVars, genVars,
                   phase>>

NextGenerate ==
    \/ GenerateValidate \/ GenerateDiff \/ GenerateWriteMigration \/ GenerateSaveState
    \/ GenerateWriteFails \/ HandleError

SpecGenerate == InitGenerate /\ [][NextGenerate]_vars

-----------------------------------------------------------------------------
(* C21: generate leaves the project untouched unless it produced a migration *)

\* C21: a schema that fails validation raises SchemaValidationError before the
\* snapshot is loaded or diffed; that run and a run with an empty diff write no
\* migration and leave the state file as it was; the state file is replaced, by
\* the snapshot of the declared schema, only after the migration file of the run
\* was written.
C21_GenerateLeavesProjectUntouched ==
    /\ [](outcome = "invalid" =>
            ~ValidateSchema(newSchema) /\ operations = <<>> /\ migrations = 0)
    /\ [](outcome \notin {"start", "invalid"} => ValidateSchema(newSchema))
    /\ [](outcome = "nochange" => operations = <<>> /\ migrations = 0)
    /\ [][(outcome \in {"invalid", "nochange"}) =>
            (oldState' = oldState /\ migrations' = migrations /\ outcome' = outcome)]_vars
    /\ [][(outcome' = "invalid" /\ outcome # "invalid") => outcome = "start"]_vars
    /\ [][migrations' # migrations => (outcome = "diffed" /\ operations # <<>>)]_vars
    /\ [][oldState' # oldState =>
            /\ outcome = "written" /\ migrations = 1
            /\ oldState' = SchemaToState(newSchema)]_vars
    /\ [](exitCode = <<2>> => outcome = "invalid")

\* a run wrote its migration and then replaced the state by the snapshot of the
\* declared schema, which differs from the one it loaded
C21_Witness ==
    /\ outcome = "generated" /\ migrations = 1 /\ operations # <<>>
    /\ oldState = SchemaToState(newSchema)

=============================================================================
